---- MODULE Spec2Model ----
(***************************************************************************)
(* Model of the scope-resolving configuration core of csfw:                *)
(*   - store/scope: Scope kinds, permission bit sets, the packed Hash      *)
(*   - config.Scoped: the store -> website -> default fallback of the      *)
(*     typed accessors over a root Getter                                  *)
(***************************************************************************)
EXTENDS Integers, Sequences, FiniteSets, TLC

(***************************************************************************)
(* Bounds of the model                                                     *)
(***************************************************************************)
\* resolver IDs (WebsiteID, StoreID) range over 0..MaxID
MaxID == 2
\* hash inputs are sampled EdgeWidth around 0, MaxStoreID and 2^24
EdgeWidth == 2

(***************************************************************************)
(* store/scope: Scope kinds and permission bit sets                        *)
(***************************************************************************)
Absent == 0
Default == 1
Website == 2
Group == 3
Store == 4

Scopes == {Absent, Default, Website, Group, Store}

maxUint8 == 255

\* Perm.Has: (bits & Perm(1<<s)) != 0
Has(bits, s) == (bits \div (2 ^ s)) % 2 = 1

PermStoreReverse == 2 ^ Store
PermWebsiteReverse == 2 ^ Website + 2 ^ Store

(***************************************************************************)
(* store/scope/hash.go                                                     *)
(***************************************************************************)
MaxStoreID == 2 ^ 23 - 1

\* 1<<24: a Hash is uint32 with the Scope (uint8) in bits 24..31 and the ID
\* below; no value of the model reaches bit 31
Pow24 == 2 ^ 24

\* bitwise operators on non-negative integers
RECURSIVE BitOr(_, _)
BitOr(a, b) ==
    IF a = 0 THEN b
    ELSE IF b = 0 THEN a
    ELSE (IF a % 2 = 1 \/ b % 2 = 1 THEN 1 ELSE 0) + 2 * BitOr(a \div 2, b \div 2)

RECURSIVE BitAnd(_, _)
BitAnd(a, b) ==
    IF a = 0 \/ b = 0 THEN 0
    ELSE (IF a % 2 = 1 /\ b % 2 = 1 THEN 1 ELSE 0) + 2 * BitAnd(a \div 2, b \div 2)

RECURSIVE BitXor(_, _)
BitXor(a, b) ==
    IF a = 0 THEN b
    ELSE IF b = 0 THEN a
    ELSE (IF a % 2 # b % 2 THEN 1 ELSE 0) + 2 * BitXor(a \div 2, b \div 2)

\* Hash(Default)<<24 | 0
DefaultHash == BitOr(Default * Pow24, 0)

\* NewHash without the upper limit of the ID
NewHashNoLimit(s, id) ==
    IF s > Default /\ id < 0 THEN 0
    ELSE LET id2 == IF s < Website THEN 0 ELSE id
         IN  BitOr(s * Pow24, id2)

\* NewHash handing out the default hash for a rejected input
NewHashErrDefault(s, id) ==
    IF id > MaxStoreID \/ (s > Default /\ id < 0) THEN DefaultHash
    ELSE LET id2 == IF s < Website THEN 0 ELSE id
         IN  BitOr(s * Pow24, id2)

NewHash(s, id) ==
    IF id > MaxStoreID \/ (s > Default /\ id < 0) THEN 0
    ELSE LET id2 == IF s < Website THEN 0 ELSE id
         IN  BitOr(s * Pow24, id2)

\* Unpack with the ID limit off by one
UnpackOffByOne(h) ==
    LET prospectS == h \div Pow24
        prospectID == BitXor(h, (h \div Pow24) * Pow24)
    IN  IF prospectS > maxUint8 \/ prospectS < 0 THEN <<Absent, -1>>
        ELSE IF prospectID >= MaxStoreID \/ prospectID < 0 THEN <<Absent, -1>>
        ELSE <<prospectS, prospectID>>

Unpack(h) ==
    LET prospectS == h \div Pow24
        h64 == h
        prospectID == BitXor(h64, (h64 \div Pow24) * Pow24)
    IN  IF prospectS > maxUint8 \/ prospectS < 0 THEN <<Absent, -1>>
        ELSE IF prospectID > MaxStoreID \/ prospectID < 0 THEN <<Absent, -1>>
        ELSE <<prospectS, prospectID>>

EqualScope(h, other) ==
    LET hScope == h \div Pow24
        oScope == other \div Pow24
    IN  IF hScope > maxUint8 \/ hScope <= 0 THEN FALSE
        ELSE IF oScope > maxUint8 \/ oScope <= 0 THEN FALSE
        ELSE hScope = oScope

\* Hash.Scope
HashScope(h) ==
    LET hScope == h \div Pow24
    IN  IF hScope > maxUint8 \/ hScope < 0 THEN Absent ELSE hScope

\* Hash.ID
HashID(h) ==
    LET h64 == h
        prospectID == BitXor(h64, (h64 \div Pow24) * Pow24)
    IN  IF prospectID > MaxStoreID \/ prospectID < 0 THEN -1 ELSE prospectID

\* ValidParent without the check of the parent's ID
ValidParentAnyParentID(h, parent) ==
    LET p == Unpack(parent)[1]
        c == Unpack(h)[1]
        cID == Unpack(h)[2]
    IN  \/ (p = Default /\ c = Default /\ cID = 0)
        \/ (p = Default /\ c = Website /\ cID >= 0)
        \/ (p = Website /\ c = Store /\ cID >= 0)

\* h.ValidParent(parent)
ValidParent(h, parent) ==
    LET p == Unpack(parent)[1]
        pID == Unpack(parent)[2]
        c == Unpack(h)[1]
        cID == Unpack(h)[2]
    IN  \/ (p = Default /\ pID = 0 /\ c = Default /\ cID = 0)
        \/ (p = Default /\ pID = 0 /\ c = Website /\ cID >= 0)
        \/ (p = Website /\ pID >= 0 /\ c = Store /\ cID >= 0)

HashMaxSegments == 256

\* the segment mask without the -1
hashBitAndNoMinus == HashMaxSegments

hashBitAnd == HashMaxSegments - 1

\* uint8(h & hashBitAnd)
Segment(h) == BitAnd(h, hashBitAnd) % (maxUint8 + 1)

(***************************************************************************)
(* config/cfgpath and the root Getter                                      *)
(***************************************************************************)
ErrNil == "nil"
ErrNotFound == "NotFound"
ErrNotValid == "NotValid"

IsNotFound(err) == err = ErrNotFound
IsNotValid(err) == err = ErrNotValid

\* a route is its sequence of slash separated segments
StoredRoute == <<"web", "unsecure", "url">>
Routes == { StoredRoute,
            <<"catalog", "product", "enable_flat">>,
            <<"catalog">>,
            <<"web", "", "url">> }

IsValidRoute(r) == Len(r) = 3 /\ \A i \in 1..Len(r) : r[i] # ""

\* cfgpath.New: a validated, unbound path or a NotValid error
cfgpathNew(r) ==
    IF IsValidRoute(r)
    THEN [p |-> [Route |-> r, ScopeHash |-> DefaultHash], err |-> ErrNil]
    ELSE [p |-> [Route |-> <<>>, ScopeHash |-> 0], err |-> ErrNotValid]

BindStore(p, id) == [p EXCEPT !.ScopeHash = NewHash(Store, id)]
BindWebsite(p, id) == [p EXCEPT !.ScopeHash = NewHash(Website, id)]

\* the typed accessors of Getter and Scoped
Accessors == {"Byte", "String", "Bool", "Float64", "Int", "Time"}

\* Go zero value of the accessor's result type, as a literal
ZeroValue(T) ==
    CASE T = "Byte" -> "nil"
      [] T = "String" -> "string()"
      [] T = "Bool" -> "false"
      [] T = "Float64" -> "0.0"
      [] T = "Int" -> "0"
      [] T = "Time" -> "time.Time{}"

\* a non-zero value of the accessor's result type, as a literal
SomeValue(T) ==
    CASE T = "Byte" -> "[]byte(Hello)"
      [] T = "String" -> "http://cs.io"
      [] T = "Bool" -> "true"
      [] T = "Float64" -> "3.14159"
      [] T = "Int" -> "2016"
      [] T = "Time" -> "time.Now()"

\* what the backend holds under a key: nothing, the zero value, a non-zero
\* value, or a value the typed accessor cannot convert
StoredKinds == {"absent", "zero", "val", "bad"}

\* the backend holds rows for the default scope, website 1 and store 1
StoredIDs == {1}
StoredKeys == {DefaultHash} \cup {NewHash(Website, i) : i \in StoredIDs}
                            \cup {NewHash(Store, i) : i \in StoredIDs}

IDs == 0..MaxID
Restrictions == {<<>>} \cup {<<s>> : s \in Scopes}

VARIABLES
    storage,    \* root Getter: StoredKeys -> StoredKinds, values of StoredRoute
    ss,         \* the Scoped resolver: [WebsiteID, StoreID]
    op,         \* the operation performed last
    argT,       \* accessor of the last Scoped call
    argR,       \* route argument of the last Scoped call
    argS,       \* variadic scope argument of the last Scoped call
    ret,        \* result of the last Scoped call: [v, h, err]
    calls,      \* paths handed to the root Getter by the last Scoped call
    scopeRet,   \* results of Scope() and Parent() of the resolver
    hashS,      \* scope argument of NewHash
    hashID,     \* id argument of NewHash
    hash,       \* the Hash under inspection
    unpacked,   \* result of hash.Unpack()
    hashOrigin, \* how hash was made: by NewHash or from a raw number
    hash2,      \* the other Hash of EqualScope and ValidParent
    idRet,      \* result of hash.ID()
    segments,   \* results of the calls of hash.Segment(), in order
    equalRet,   \* result of hash.EqualScope(hash2)
    parentRet,  \* result of hash.ValidParent(hash2)
    constructed,       \* outcome of ctxcors.New: "no", "yes" or "failed"
    scopeCache,        \* Service.scopeCache: Hash -> scopedConfig
    defaultScopeCache, \* Service.defaultScopeCache
    scpOptionFnc,      \* Service.scpOptionFnc is set (non-nil)
    optionError,       \* Service.optionError is set (non-nil)
    mu,                \* Service.mu: [w: holder of the write lock or 0, r: holders of the read lock]
    local,             \* per goroutine: position and locals of its running call
    interfered,        \* per goroutine: another goroutine wrote to the service during its call
    pulled,            \* hashes a lookup's option function has populated with a valid entry
    mapWriteUnlocked,  \* some write to scopeCache happened without the write lock held
    numCalls,          \* calls of the service started so far
    svcStorage,        \* config.Service: the values stored, by path
    svcOp,             \* config.Service: the operation performed last
    svcWrite,          \* config.Service: the last Write: [p, v, err]
    svcRead,           \* config.Service: the last read: [T, p, v, err, isSet]
    storeState,        \* store.NewService: "no", "yes" or "failed"
    backend,           \* store factory: [websites, groups, stores], the raw table rows
    storeSvc,          \* store.Service: defaultStoreID, the cached slices and maps
    loaders,           \* the goroutines of factory.LoadFromDB: [pc, err] each
    loadMain,          \* the LoadFromDB call: position, receive count, result
    svcBefore,         \* store.Service as it was when LoadFromDB was called
    appStore,          \* store.Manager: the id of the application store, or NoStore
    mgrMaps,           \* store.Manager: websiteMap, groupMap and storeMap
    mgrRet,            \* store.Manager: the last call, its arguments and its result
    initOK,            \* store.Manager: some Init has returned nil
    mgrCalls,          \* store.Manager: the number of calls so far
    geoReq,            \* geoip middleware: the request being served and what it finds
    geoPc,             \* geoip middleware: the position of the handler
    geoTrace,          \* geoip middleware: the calls made for the request, in order
    geoCtx,            \* geoip middleware: the error attached to the request context
    hpPool,            \* hashpool.Tank: the hashes lying in the sync.Pool
    hpLocal,           \* hashpool.Tank: per goroutine, its call and the hash it holds
    storeMu,           \* store.Service.mu: the readers holding it and the writer
    viewR,             \* store.Service: per goroutine, the lookup it is in
    viewW,             \* store.Service: the goroutine in ClearCache or LoadFromDB
    oeValue,           \* ctxcors.Service.optionError with the identity of the error
    oeFirst,           \* the first error ever assigned to optionError
    oeLocal,           \* per goroutine, its Options call around AddError
    rlCache,           \* ratelimit.Service: scopeCache
    rlApplied,         \* ratelimit.Service: the options applied so far, in order
    storeRet           \* the last IDbyCode call: its arguments, its result and
                       \* the backend tables it read

vars == <<storage, ss, op, argT, argR, argS, ret, calls, scopeRet,
          hashS, hashID, hash, unpacked,
          hashOrigin, hash2, idRet, segments, equalRet, parentRet,
          constructed, scopeCache, defaultScopeCache, scpOptionFnc,
          optionError, mu, local, interfered, pulled, mapWriteUnlocked,
          numCalls, svcStorage, svcOp, svcWrite, svcRead,
          storeState, backend, storeSvc, loaders, loadMain, svcBefore, storeRet,
          rlCache, rlApplied, appStore, mgrMaps, mgrRet, initOK, mgrCalls,
          geoReq, geoPc, geoTrace, geoCtx, hpPool, hpLocal,
          storeMu, viewR, viewW, oeValue, oeFirst, oeLocal>>

resolverVars == <<storage, ss, argT, argR, argS, ret, calls, scopeRet>>
hashVars == <<hashS, hashID, hash, unpacked,
              hashOrigin, hash2, idRet, segments, equalRet, parentRet>>
cacheVars == <<constructed, scopeCache, defaultScopeCache, scpOptionFnc,
               optionError, mu, local, interfered, pulled, mapWriteUnlocked,
               numCalls>>
svcVars == <<svcStorage, svcOp, svcWrite, svcRead>>
storeVars == <<storeState, backend, storeSvc, loaders, loadMain, svcBefore, storeRet>>
rlVars == <<rlCache, rlApplied>>
mgrVars == <<appStore, mgrMaps, mgrRet, initOK, mgrCalls>>
geoVars == <<geoReq, geoPc, geoTrace, geoCtx>>
hpVars == <<hpPool, hpLocal>>
viewVars == <<storeMu, viewR, viewW>>
oeVars == <<oeValue, oeFirst, oeLocal>>
extraVars == <<geoVars, hpVars, viewVars, oeVars>>
laterVars == <<svcVars, storeVars, rlVars, mgrVars, extraVars>>
\* what the actions of each specification leave alone
resolverFrame == <<hashVars, cacheVars, laterVars>>
hashFrame == <<resolverVars, cacheVars, laterVars>>
cacheFrame == <<op, resolverVars, hashVars, laterVars>>

(***************************************************************************)
(* The scoped-config cache of ctxcors.Service                              *)
(***************************************************************************)
NumGoroutines == 2
MaxCalls == 2
Goroutines == 1..NumGoroutines

\* the zero value scopedConfig{}
emptyConfig == [scopeHash |-> 0, lastErr |-> FALSE, log |-> FALSE, value |-> ""]

\* the configuration a fresh entry starts from; it carries no logger
newScopedConfig ==
    [scopeHash |-> DefaultHash, lastErr |-> FALSE, log |-> FALSE,
     value |-> "Hello Default Gophers"]

\* scopedConfig.IsValid
IsValid(sc) == sc.scopeHash # 0 /\ ~sc.lastErr

NoEntries == [h \in {} |-> emptyConfig]
NoOpt == [name |-> "none", h |-> 0]
NoGetter == <<>>

\* a goroutine that runs no call of the service
Idle ==
    [pc |-> "idle", kind |-> "none", sg |-> NoGetter, h |-> 0,
     fallback |-> FALSE, sc |-> emptyConfig, ok |-> FALSE, opt |-> NoOpt,
     ret |-> emptyConfig, err |-> ErrNil,
     pre |-> [hit |-> FALSE, defValid |-> FALSE], trace |-> {}]

\* the state before ctxcors.New
NoService ==
    /\ constructed = "no"
    /\ scopeCache = NoEntries
    /\ defaultScopeCache = emptyConfig
    /\ scpOptionFnc = FALSE
    /\ optionError = FALSE
    /\ mu = [w |-> 0, r |-> {}]
    /\ local = [g \in Goroutines |-> Idle]
    /\ interfered = [g \in Goroutines |-> FALSE]
    /\ pulled = {}
    /\ mapWriteUnlocked = FALSE
    /\ numCalls = 0

\* config.Service before any call
NoPath == [Route |-> <<>>, ScopeHash |-> 0]
NoValue == [T |-> "none", v |-> ""]
NoConfigService ==
    /\ svcStorage = [k \in {} |-> NoValue]
    /\ svcOp = "init"
    /\ svcWrite = [p |-> NoPath, v |-> NoValue, err |-> "nil"]
    /\ svcRead = [T |-> "none", p |-> NoPath, v |-> "", err |-> "nil", isSet |-> FALSE]

\* store.Service and its factory before NewService
Loaders == {"websites", "groups", "stores"}
NoTables == [websites |-> {}, groups |-> {}, stores |-> {}]
NoCaches ==
    [defaultStoreID |-> -1, websites |-> {}, groups |-> {}, stores |-> {},
     cacheWebsite |-> <<>>, cacheGroup |-> <<>>, cacheStore |-> <<>>]
NoLoad == [pc |-> "idle", received |-> 0, via |-> "none", ret |-> "none",
           db |-> NoTables, fail |-> {}]
NoStoreService ==
    /\ storeState = "no"
    /\ backend = NoTables
    /\ storeSvc = NoCaches
    /\ loaders = [l \in Loaders |-> [pc |-> "idle", err |-> FALSE]]
    /\ loadMain = NoLoad
    /\ svcBefore = NoCaches
    /\ storeRet = [scp |-> 0, code |-> "", id |-> 0, err |-> "none", t |-> NoTables]

\* ratelimit.Service before New
NoRateLimit ==
    /\ rlCache = <<>>
    /\ rlApplied = <<>>

\* store.NewManager: no application store, empty maps
NoStore == -1
NilRetriever == -1
NoMgrRet ==
    [op |-> "none", rs |-> <<>>, scp |-> 0, cookie |-> NilRetriever,
     v |-> NoStore, err |-> "nil", appBefore |-> NoStore, initBefore |-> FALSE]
NoManager ==
    /\ appStore = NoStore
    /\ mgrMaps = [website |-> <<>>, group |-> <<>>, store |-> <<>>]
    /\ mgrRet = NoMgrRet
    /\ initOK = FALSE
    /\ mgrCalls = 0

\* the geoip middleware before a request
NoGeoReq ==
    [store |-> FALSE,
     cfg |-> [lastErr |-> FALSE, scopeHash |-> 0, IsAllowedFunc |-> "nil",
              alternativeHandler |-> FALSE, allowedCountries |-> <<>>],
     country |-> "none"]
NoGeo ==
    /\ geoReq = NoGeoReq
    /\ geoPc = "idle"
    /\ geoTrace = <<>>
    /\ geoCtx = "none"

NoHash == -1
NoSum == [pc |-> "idle", kind |-> "none", data |-> <<>>, h |-> NoHash, ret |-> NoHash,
          pooled |-> FALSE, calls |-> 0]
NoTank ==
    /\ hpPool = <<>>
    /\ hpLocal = [g \in Goroutines |-> NoSum]

NoLookup ==
    [pc |-> "idle", kind |-> "none", id |-> 0, held |-> 0, err |-> "none", ent |-> {},
     during |-> FALSE, calls |-> 0]
NoView ==
    /\ storeMu = [readers |-> 0, writer |-> "free"]
    /\ viewR = [g \in Goroutines |-> NoLookup]
    /\ viewW = [pc |-> "idle", call |-> "none", ret |-> "none"]

NoOptions == [pc |-> "idle", err |-> "nil", before |-> "nil", ret |-> "none", calls |-> 0]
NoOptionError ==
    /\ oeValue = "nil"
    /\ oeFirst = "nil"
    /\ oeLocal = [g \in Goroutines |-> NoOptions]

NothingExtra == NoGeo /\ NoTank /\ NoView /\ NoOptionError

\* the parts of the state a specification of an earlier component pins
NothingLater ==
    NoConfigService /\ NoStoreService /\ NoRateLimit /\ NoManager /\ NothingExtra

NoRet == [v |-> "", h |-> 0, err |-> ErrNil]
NoScopeRet == [scope |-> <<Absent, 0>>, parent |-> <<Absent, 0>>]

\* Getter.T(p): exact scope lookup, NotFound when the key is absent
Root(T, p) ==
    LET kind == IF p.Route = StoredRoute /\ p.ScopeHash \in DOMAIN storage
                THEN storage[p.ScopeHash] ELSE "absent"
    IN  CASE kind = "absent" -> [v |-> ZeroValue(T), err |-> ErrNotFound]
          [] kind = "bad" -> [v |-> ZeroValue(T), err |-> ErrNotValid]
          [] kind = "zero" -> [v |-> ZeroValue(T), err |-> ErrNil]
          [] kind = "val" -> [v |-> SomeValue(T), err |-> ErrNil]

(***************************************************************************)
(* config.Scoped                                                           *)
(***************************************************************************)
NewScopedValue(websiteID, storeID) == [WebsiteID |-> websiteID, StoreID |-> storeID]

\* Parent pairing the website scope with the store ID
ParentStoreID(s) ==
    IF s.StoreID > 0 THEN <<Website, s.StoreID>>
    ELSE <<Default, 0>>

Parent(s) ==
    IF s.StoreID > 0 THEN <<Website, s.WebsiteID>>
    ELSE <<Default, 0>>

Scope(s) ==
    IF s.StoreID > 0 THEN <<Store, s.StoreID>>
    ELSE IF s.WebsiteID > 0 THEN <<Website, s.WebsiteID>>
    ELSE <<Default, 0>>

\* isAllowedStore ignoring the scope argument
isAllowedStoreNoArg(s) ==
    ss.StoreID > 0 /\ Has(PermStoreReverse, Scope(ss)[1])

isAllowedStore(s) ==
    LET scp0 == Scope(ss)[1]
        scp == IF Len(s) > 0 /\ s[1] > Absent THEN s[1] ELSE scp0
    IN  ss.StoreID > 0 /\ Has(PermStoreReverse, scp)

\* isAllowedWebsite without the WebsiteID check
isAllowedWebsiteNoID(s) ==
    LET scp0 == Scope(ss)[1]
        scp == IF Len(s) > 0 /\ s[1] > Absent THEN s[1] ELSE scp0
    IN  Has(PermWebsiteReverse, scp)

\* isAllowedWebsite taking only a restriction above Default
isAllowedWebsiteAboveDefault(s) ==
    LET scp0 == Scope(ss)[1]
        scp == IF Len(s) > 0 /\ s[1] > Default THEN s[1] ELSE scp0
    IN  ss.WebsiteID > 0 /\ Has(PermWebsiteReverse, scp)

isAllowedWebsite(s) ==
    LET scp0 == Scope(ss)[1]
        scp == IF Len(s) > 0 /\ s[1] > Absent THEN s[1] ELSE scp0
    IN  ss.WebsiteID > 0 /\ Has(PermWebsiteReverse, scp)

\* found with the negation dropped
foundInverted(err) == IsNotFound(err) \/ err = ErrNil

\* found accepting only a nil error
foundNilOnly(err) == err = ErrNil

\* !errors.IsNotFound(err) || err == nil: value found or err is not NotFound
found(err) == ~IsNotFound(err) \/ err = ErrNil

\* the early return handing out the default hash
FailFastDefaultHash(T, err) ==
    [v |-> ZeroValue(T), h |-> DefaultHash, err |-> err, calls |-> <<>>]

\* the early return on a malformed route
FailFast(T, err) == [v |-> ZeroValue(T), h |-> 0, err |-> err, calls |-> <<>>]

\* the terminal step without the reset of the hash to DefaultHash
DefaultAttemptKeepHash(T, p, c) ==
    LET rD == Root(T, p)
    IN  [v |-> rD.v, h |-> p.ScopeHash, err |-> rD.err, calls |-> Append(c, p)]

\* the terminal step; c holds the paths looked up so far
DefaultAttempt(T, p, c) ==
    LET pD == [p EXCEPT !.ScopeHash = DefaultHash]
        rD == Root(T, pD)
    IN  [v |-> rD.v, h |-> DefaultHash, err |-> rD.err, calls |-> Append(c, pD)]

\* the website step returning the default hash for a website value
WebsiteAttemptDefaultHash(T, p, s, c) ==
    IF isAllowedWebsite(s)
    THEN LET pW == BindWebsite(p, ss.WebsiteID)
             rW == Root(T, pW)
         IN  IF found(rW.err)
             THEN [v |-> rW.v, h |-> DefaultHash, err |-> rW.err,
                   calls |-> Append(c, pW)]
             ELSE DefaultAttempt(T, pW, Append(c, pW))
    ELSE DefaultAttempt(T, p, c)

WebsiteAttempt(T, p, s, c) ==
    IF isAllowedWebsite(s)
    THEN LET pW == BindWebsite(p, ss.WebsiteID)
             rW == Root(T, pW)
         IN  IF found(rW.err)
             THEN [v |-> rW.v, h |-> pW.ScopeHash, err |-> rW.err,
                   calls |-> Append(c, pW)]
             ELSE DefaultAttempt(T, pW, Append(c, pW))
    ELSE DefaultAttempt(T, p, c)

\* the store step without its return: the chain always goes on
StoreAttemptNoReturn(T, p, s) ==
    IF isAllowedStore(s)
    THEN LET pS == BindStore(p, ss.StoreID)
         IN  WebsiteAttempt(T, pS, s, <<pS>>)
    ELSE WebsiteAttempt(T, p, s, <<>>)

StoreAttempt(T, p, s) ==
    IF isAllowedStore(s)
    THEN LET pS == BindStore(p, ss.StoreID)
             rS == Root(T, pS)
         IN  IF found(rS.err)
             THEN [v |-> rS.v, h |-> pS.ScopeHash, err |-> rS.err,
                   calls |-> <<pS>>]
             ELSE WebsiteAttempt(T, pS, s, <<pS>>)
    ELSE WebsiteAttempt(T, p, s, <<>>)

\* the body shared by Byte, String, Bool, Float64, Int and Time:
\* result [v, h, err] and the paths looked up at the root, in order
Traverse(T, r, s) ==
    LET pn == cfgpathNew(r)
    IN  IF pn.err # ErrNil THEN FailFast(T, pn.err)
        ELSE StoreAttempt(T, pn.p, s)

(***************************************************************************)
(* Actions of the resolver                                                 *)
(***************************************************************************)
\* A run populates the backend, constructs a resolver and calls it once; the
\* accessors only read, so a further call would see the same backend.

\* Writer.Write of a value for StoredRoute at the scope of key
Write(key, kind) ==
    /\ op \in {"init", "Write"}
    /\ storage' = [storage EXCEPT ![key] = kind]
    /\ op' = "Write"
    /\ ret' = NoRet
    /\ calls' = <<>>
    /\ scopeRet' = NoScopeRet
    /\ UNCHANGED <<ss, argT, argR, argS>>
    /\ UNCHANGED resolverFrame

NewScoped(websiteID, storeID) ==
    /\ op \in {"init", "Write"}
    /\ ss' = NewScopedValue(websiteID, storeID)
    /\ op' = "NewScoped"
    /\ ret' = NoRet
    /\ calls' = <<>>
    /\ scopeRet' = NoScopeRet
    /\ UNCHANGED <<storage, argT, argR, argS>>
    /\ UNCHANGED resolverFrame

ScopeAndParent ==
    /\ op = "NewScoped"
    /\ op' = "Scope"
    /\ scopeRet' = [scope |-> Scope(ss), parent |-> Parent(ss)]
    /\ ret' = NoRet
    /\ calls' = <<>>
    /\ UNCHANGED <<storage, ss, argT, argR, argS>>
    /\ UNCHANGED resolverFrame

Call(T, r, s) ==
    LET res == Traverse(T, r, s) IN
    /\ op = "NewScoped"
    /\ op' = "Get"
    /\ argT' = T
    /\ argR' = r
    /\ argS' = s
    /\ ret' = [v |-> res.v, h |-> res.h, err |-> res.err]
    /\ calls' = res.calls
    /\ scopeRet' = NoScopeRet
    /\ UNCHANGED <<storage, ss>>
    /\ UNCHANGED resolverFrame

ScopedByte == \E r \in Routes, s \in Restrictions : Call("Byte", r, s)
ScopedString == \E r \in Routes, s \in Restrictions : Call("String", r, s)
ScopedBool == \E r \in Routes, s \in Restrictions : Call("Bool", r, s)
ScopedFloat64 == \E r \in Routes, s \in Restrictions : Call("Float64", r, s)
ScopedInt == \E r \in Routes, s \in Restrictions : Call("Int", r, s)
ScopedTime == \E r \in Routes, s \in Restrictions : Call("Time", r, s)

Init ==
    /\ storage = [k \in StoredKeys |-> "absent"]
    /\ ss = NewScopedValue(0, 0)
    /\ op = "init"
    /\ argT = "String"
    /\ argR = <<>>
    /\ argS = <<>>
    /\ ret = NoRet
    /\ calls = <<>>
    /\ scopeRet = NoScopeRet
    /\ hashS = Absent
    /\ hashID = 0
    /\ hash = 0
    /\ unpacked = <<Absent, 0>>
    /\ hashOrigin = "none"
    /\ hash2 = 0
    /\ idRet = 0
    /\ segments = <<>>
    /\ equalRet = FALSE
    /\ parentRet = FALSE
    /\ NoService
    /\ NothingLater

Next ==
    \/ \E key \in StoredKeys, kind \in StoredKinds : Write(key, kind)
    \/ \E w \in IDs, s \in IDs : NewScoped(w, s)
    \/ ScopeAndParent
    \/ ScopedByte
    \/ ScopedString
    \/ ScopedBool
    \/ ScopedFloat64
    \/ ScopedInt
    \/ ScopedTime

Spec == Init /\ [][Next]_vars

(***************************************************************************)
(* The Hash functions applied to sampled inputs                            *)
(***************************************************************************)
HashIDs == (-EdgeWidth..EdgeWidth)
           \cup {33}
           \cup ((255 - EdgeWidth)..(255 + EdgeWidth))
           \cup ((MaxStoreID - EdgeWidth)..(MaxStoreID + EdgeWidth))
           \cup ((Pow24 - EdgeWidth)..(Pow24 + EdgeWidth))

InitHash ==
    /\ storage = [k \in StoredKeys |-> "absent"]
    /\ ss = NewScopedValue(0, 0)
    /\ op = "init"
    /\ argT = "String"
    /\ argR = <<>>
    /\ argS = <<>>
    /\ ret = NoRet
    /\ calls = <<>>
    /\ scopeRet = NoScopeRet
    /\ hashS \in Scopes
    /\ hashID \in HashIDs
    /\ hash = 0
    /\ unpacked = <<Absent, 0>>
    /\ hashOrigin = "none"
    /\ hash2 = 0
    /\ idRet = 0
    /\ segments = <<>>
    /\ equalRet = FALSE
    /\ parentRet = FALSE
    /\ NoService
    /\ NothingLater

hashResults == <<unpacked, hash2, idRet, segments, equalRet, parentRet>>

NewHashCall ==
    /\ op = "init"
    /\ op' = "NewHash"
    /\ hashOrigin' = "NewHash"
    /\ hash' = NewHash(hashS, hashID)
    /\ UNCHANGED <<hashS, hashID>>
    /\ UNCHANGED hashResults
    /\ UNCHANGED hashFrame

\* a hand-crafted hash: the conversion Hash(x) of a raw number whose scope
\* byte is hashS and whose low 24 bits are hashID
RawHash ==
    /\ op = "init"
    /\ hashID >= 0 /\ hashID < Pow24
    /\ op' = "Raw"
    /\ hashOrigin' = "raw"
    /\ hash' = hashS * Pow24 + hashID
    /\ UNCHANGED <<hashS, hashID>>
    /\ UNCHANGED hashResults
    /\ UNCHANGED hashFrame

HasHash == op \in {"NewHash", "Raw"}

UnpackCall ==
    /\ HasHash
    /\ op' = "Unpack"
    /\ unpacked' = Unpack(hash)
    /\ UNCHANGED <<hashS, hashID, hash, hashOrigin>>
    /\ UNCHANGED <<hash2, idRet, segments, equalRet, parentRet>>
    /\ UNCHANGED hashFrame

IDCall ==
    /\ HasHash
    /\ op' = "ID"
    /\ idRet' = HashID(hash)
    /\ UNCHANGED <<hashS, hashID, hash, hashOrigin>>
    /\ UNCHANGED <<unpacked, hash2, segments, equalRet, parentRet>>
    /\ UNCHANGED hashFrame

\* Segment may be called again on the same hash
SegmentCall ==
    /\ HasHash \/ op = "Segment"
    /\ Len(segments) < 2
    /\ op' = "Segment"
    /\ segments' = Append(segments, Segment(hash))
    /\ UNCHANGED <<hashS, hashID, hash, hashOrigin>>
    /\ UNCHANGED <<unpacked, hash2, idRet, equalRet, parentRet>>
    /\ UNCHANGED hashFrame

\* the hashes EqualScope and ValidParent are applied to besides hash itself
OtherIDs == {0, 1, MaxStoreID, MaxStoreID + 1}
OtherHashes == {s * Pow24 + id : s \in Scopes, id \in OtherIDs}

EqualScopeCall ==
    /\ HasHash
    /\ \E other \in OtherHashes \cup {hash} :
         /\ hash2' = other
         /\ equalRet' = EqualScope(hash, other)
    /\ op' = "EqualScope"
    /\ UNCHANGED <<hashS, hashID, hash, hashOrigin>>
    /\ UNCHANGED <<unpacked, idRet, segments, parentRet>>
    /\ UNCHANGED hashFrame

ValidParentCall ==
    /\ HasHash
    /\ \E parent \in OtherHashes \cup {hash} :
         /\ hash2' = parent
         /\ parentRet' = ValidParent(hash, parent)
    /\ op' = "ValidParent"
    /\ UNCHANGED <<hashS, hashID, hash, hashOrigin>>
    /\ UNCHANGED <<unpacked, idRet, segments, equalRet>>
    /\ UNCHANGED hashFrame

NextHash ==
    \/ NewHashCall
    \/ RawHash
    \/ UnpackCall
    \/ IDCall
    \/ SegmentCall
    \/ EqualScopeCall
    \/ ValidParentCall

SpecHash == InitHash /\ [][NextHash]_vars

(***************************************************************************)
(* Properties of the resolver (Spec)                                       *)
(***************************************************************************)
Got == op = "Get"
WellFormed == Len(argR) = 3 /\ \A i \in 1..3 : argR[i] # ""

StoreHash == NewHash(Store, ss.StoreID)
WebsiteHash == NewHash(Website, ss.WebsiteID)

\* what the root Getter answers for the route of the call at scope hash h
RootAt(h) == Root(argT, [Route |-> argR, ScopeHash |-> h])
PathAt(h) == [Route |-> argR, ScopeHash |-> h]

\* the hashes of the root lookups of the call, in order
CallHashes == [i \in 1..Len(calls) |-> calls[i].ScopeHash]

\* the scope the permission checks use, and what it permits
Effective == IF Len(argS) > 0 /\ argS[1] # Absent THEN argS[1]
             ELSE IF ss.StoreID > 0 THEN Store
             ELSE IF ss.WebsiteID > 0 THEN Website ELSE Default
StorePermitted == ss.StoreID > 0 /\ Effective = Store
WebsitePermitted == ss.WebsiteID > 0 /\ Effective \in {Website, Store}

\* C1: with StoreID>0 and WebsiteID>0, a well-formed route whose value is
\* held only at Default/0 (NotFound at Store/StoreID and Website/WebsiteID)
\* resolves to that value with DefaultHash and no error, for every accessor.
C1_DefaultOnly ==
    (/\ Got /\ WellFormed
     /\ ss.StoreID > 0 /\ ss.WebsiteID > 0
     /\ RootAt(StoreHash).err = ErrNotFound
     /\ RootAt(WebsiteHash).err = ErrNotFound
     /\ RootAt(DefaultHash).err = ErrNil)
    => /\ ret = [v |-> RootAt(DefaultHash).v, h |-> DefaultHash, err |-> ErrNil]
       /\ ret.h # StoreHash /\ ret.h # WebsiteHash

C1_Witness ==
    /\ Got /\ argR = StoredRoute /\ argS = <<>> /\ argT = "String"
    /\ ss = [WebsiteID |-> 1, StoreID |-> 1]
    /\ storage[StoreHash] = "absent" /\ storage[WebsiteHash] = "absent"
    /\ storage[DefaultHash] = "val"
    /\ ret = [v |-> "http://cs.io", h |-> DefaultHash, err |-> ErrNil]
    /\ Len(calls) = 3

\* C2: the value of the most specific permitted scope holding the key is
\* returned: present at Store -> Store hash whatever Website and Default hold;
\* absent at Store (or Store not permitted) and present at Website -> Website
\* hash whatever Default holds. A stored zero value counts as present.
C2_MostSpecific ==
    (Got /\ WellFormed) =>
      /\ (StorePermitted /\ RootAt(StoreHash).err = ErrNil)
           => ret = [v |-> RootAt(StoreHash).v, h |-> StoreHash, err |-> ErrNil]
      /\ (/\ ~StorePermitted \/ RootAt(StoreHash).err = ErrNotFound
          /\ WebsitePermitted
          /\ RootAt(WebsiteHash).err = ErrNil)
           => ret = [v |-> RootAt(WebsiteHash).v, h |-> WebsiteHash, err |-> ErrNil]

C2_Witness ==
    /\ Got /\ argR = StoredRoute /\ argT = "String" /\ argS = <<>>
    /\ ss = [WebsiteID |-> 1, StoreID |-> 1]
    /\ storage[StoreHash] = "zero"
    /\ storage[WebsiteHash] = "val" /\ storage[DefaultHash] = "val"
    /\ ret = [v |-> ZeroValue("String"), h |-> StoreHash, err |-> ErrNil]
    /\ Len(calls) = 1

\* C3: an error other than NotFound from the Store lookup (or from the Website
\* lookup, when reached) is returned at once with the hash of that scope and
\* no broader scope is looked up.
C3_ShortCircuit ==
    (Got /\ WellFormed) =>
      /\ (StorePermitted /\ RootAt(StoreHash).err \notin {ErrNil, ErrNotFound})
           => /\ ret.err = RootAt(StoreHash).err
              /\ ret.h = StoreHash
              /\ calls = <<PathAt(StoreHash)>>
      /\ (/\ ~StorePermitted \/ RootAt(StoreHash).err = ErrNotFound
          /\ WebsitePermitted
          /\ RootAt(WebsiteHash).err \notin {ErrNil, ErrNotFound})
           => /\ ret.err = RootAt(WebsiteHash).err
              /\ ret.h = WebsiteHash
              /\ calls[Len(calls)] = PathAt(WebsiteHash)
              /\ \A i \in 1..Len(calls) : calls[i].ScopeHash # DefaultHash

C3_Witness ==
    /\ Got /\ argR = StoredRoute /\ argS = <<>>
    /\ ss = [WebsiteID |-> 1, StoreID |-> 1]
    /\ storage[StoreHash] = "bad"
    /\ storage[WebsiteHash] = "val" /\ storage[DefaultHash] = "val"
    /\ ret.err = ErrNotValid /\ ret.h = StoreHash
    /\ Len(calls) = 1

\* C4: the restriction scope=Website on a resolver with StoreID>0 and
\* WebsiteID>0 skips the Store attempt: no lookup at Store/StoreID is made and
\* the lookups go Website, then Default.
C4_RestrictWebsite ==
    (/\ Got /\ WellFormed
     /\ ss.StoreID > 0 /\ ss.WebsiteID > 0
     /\ argS = <<Website>>)
    => /\ \A i \in 1..Len(calls) : calls[i].ScopeHash # StoreHash
       /\ \/ CallHashes = <<WebsiteHash>>
          \/ CallHashes = <<WebsiteHash, DefaultHash>>
       /\ ret.h \in {WebsiteHash, DefaultHash}

C4_Witness ==
    /\ Got /\ argR = StoredRoute /\ argS = <<Website>>
    /\ ss = [WebsiteID |-> 1, StoreID |-> 1]
    /\ storage[StoreHash] = "val"
    /\ storage[WebsiteHash] = "absent" /\ storage[DefaultHash] = "zero"
    /\ CallHashes = <<WebsiteHash, DefaultHash>>
    /\ ret.h = DefaultHash

\* C5: a malformed route fails fast in every accessor: zero value, hash 0, an
\* error that is NotValid and not NotFound, and no lookup at the root.
C5_MalformedRoute ==
    (Got /\ ~WellFormed)
    => /\ ret.v = ZeroValue(argT)
       /\ ret.h = 0
       /\ IsNotValid(ret.err) /\ ~IsNotFound(ret.err)
       /\ calls = <<>>

C5_Witness ==
    /\ Got /\ argR = <<"catalog">> /\ argT = "Time"
    /\ ss = [WebsiteID |-> 1, StoreID |-> 1]
    /\ storage[StoreHash] = "val"
    /\ ret = [v |-> ZeroValue("Time"), h |-> 0, err |-> ErrNotValid]

\* C6: a NotFound is returned only from the Default step, so with the hash
\* DefaultHash; with nothing stored at any scope the Store(1)/Website(1)
\* resolver returns (zero value, DefaultHash, NotFound).
C6_NotFoundOnlyAtDefault ==
    Got =>
      /\ IsNotFound(ret.err)
           => /\ ret.h = DefaultHash
              /\ Len(calls) > 0
              /\ calls[Len(calls)].ScopeHash = DefaultHash
      /\ (/\ WellFormed
          /\ ss = [WebsiteID |-> 1, StoreID |-> 1]
          /\ \A h \in {StoreHash, WebsiteHash, DefaultHash} :
                RootAt(h).err = ErrNotFound)
           => ret = [v |-> ZeroValue(argT), h |-> DefaultHash, err |-> ErrNotFound]

C6_Witness ==
    /\ Got /\ argR = <<"catalog", "product", "enable_flat">>
    /\ argT = "String" /\ argS = <<>>
    /\ ss = [WebsiteID |-> 1, StoreID |-> 1]
    /\ ret = [v |-> ZeroValue("String"), h |-> DefaultHash, err |-> ErrNotFound]
    /\ Len(calls) = 3

\* C7: a resolver with StoreID>0 and WebsiteID=0, called without restriction,
\* looks up Store/StoreID and on NotFound goes to Default with no Website
\* lookup in between.
C7_IndependentGates ==
    (/\ Got /\ WellFormed
     /\ ss.StoreID > 0 /\ ss.WebsiteID = 0
     /\ argS = <<>>)
    => /\ calls[1] = PathAt(StoreHash)
       /\ RootAt(StoreHash).err = ErrNotFound
            => CallHashes = <<StoreHash, DefaultHash>>
       /\ \A i \in 1..Len(calls) : Unpack(calls[i].ScopeHash)[1] # Website

C7_Witness ==
    /\ Got /\ argR = StoredRoute /\ argS = <<>> /\ argT = "Bool"
    /\ ss = [WebsiteID |-> 0, StoreID |-> 1]
    /\ storage[StoreHash] = "absent" /\ storage[DefaultHash] = "val"
    /\ CallHashes = <<StoreHash, DefaultHash>>
    /\ ret = [v |-> "true", h |-> DefaultHash, err |-> ErrNil]

\* C8: the root lookups of one call go strictly Store, Website, Default, each
\* scope at most once (at most three lookups), a broader scope only after
\* every earlier lookup returned NotFound, and all with the route of the call.
C8_LookupOrder ==
    Got =>
      /\ Len(calls) <= 3
      /\ \A i \in 1..Len(calls) :
           /\ calls[i].Route = argR
           /\ Unpack(calls[i].ScopeHash)[1] \in {Store, Website, Default}
      /\ \A i \in 1..Len(calls), j \in 1..Len(calls) :
           i < j => /\ Unpack(calls[i].ScopeHash)[1] > Unpack(calls[j].ScopeHash)[1]
                    /\ Root(argT, calls[i]).err = ErrNotFound

C8_Witness ==
    /\ Got /\ argT = "Byte" /\ argR = StoredRoute /\ argS = <<>>
    /\ ss = [WebsiteID |-> 2, StoreID |-> 1]
    /\ storage[StoreHash] = "absent" /\ storage[DefaultHash] = "bad"
    /\ CallHashes = <<StoreHash, WebsiteHash, DefaultHash>>

\* C9: Scope() is (Store,StoreID) if StoreID>0, else (Website,WebsiteID) if
\* WebsiteID>0, else (Default,0); Parent() is (Website,WebsiteID) if StoreID>0
\* and (Default,0) otherwise.
C9_ScopeParent ==
    op = "Scope" =>
      /\ ss.StoreID > 0
           => /\ scopeRet.scope = <<Store, ss.StoreID>>
              /\ scopeRet.parent = <<Website, ss.WebsiteID>>
      /\ (ss.StoreID <= 0 /\ ss.WebsiteID > 0)
           => /\ scopeRet.scope = <<Website, ss.WebsiteID>>
              /\ scopeRet.parent = <<Default, 0>>
      /\ (ss.StoreID <= 0 /\ ss.WebsiteID <= 0)
           => /\ scopeRet.scope = <<Default, 0>>
              /\ scopeRet.parent = <<Default, 0>>

C9_Witness ==
    /\ op = "Scope"
    /\ ss = [WebsiteID |-> 2, StoreID |-> 1]
    /\ scopeRet = [scope |-> <<Store, 1>>, parent |-> <<Website, 2>>]

(***************************************************************************)
(* Properties of the Hash (SpecHash)                                       *)
(***************************************************************************)
\* Default pairs with ID 0 only; the other scope kinds take 0..MaxStoreID
ValidPair(s, id) ==
    /\ s \in {Default, Website, Group, Store}
    /\ id >= 0 /\ id <= MaxStoreID
    /\ s = Default => id = 0

\* C10: for every valid (scope, id) with id in [0, MaxStoreID],
\* Unpack(NewHash(scope, id)) gives back (scope, id).
C10_HashRoundTrip ==
    (op = "Unpack" /\ ValidPair(hashS, hashID))
    => unpacked = <<hashS, hashID>>

C10_Witness ==
    /\ op = "Unpack"
    /\ hashS = Store /\ hashID = MaxStoreID
    /\ hash = Store * Pow24 + MaxStoreID
    /\ unpacked = <<Store, MaxStoreID>>

\* the ID argument, or the ID part of the raw number, exceeds MaxStoreID
FromNewHashOverflow == hashOrigin = "NewHash" /\ hashID > MaxStoreID
FromRawOverflow == hashOrigin = "raw" /\ hashID > MaxStoreID

\* C11 as claimed: NewHash(Website, MaxStoreID+1) and a raw value with an
\* overflowing ID part both unpack to (Absent, -1) and have ID() = -1.
C11_OverflowAsClaimed ==
    (\/ (hashOrigin = "NewHash" /\ hashS = Website /\ hashID = MaxStoreID + 1)
     \/ FromRawOverflow)
    => /\ op = "Unpack" => unpacked = <<Absent, -1>>
       /\ op = "ID" => idRet = -1

\* C11 (amended): an overflowing ID is never wrapped into the hash. NewHash
\* with id > MaxStoreID returns the zero hash, which unpacks to (Absent, 0)
\* and has ID() = 0; a raw value whose ID part exceeds MaxStoreID unpacks to
\* (Absent, -1) and has ID() = -1.
C11_Overflow ==
    /\ FromNewHashOverflow
         => /\ hash = 0
            /\ op = "Unpack" => unpacked = <<Absent, 0>>
            /\ op = "ID" => idRet = 0
    /\ FromRawOverflow
         => /\ op = "Unpack" => unpacked = <<Absent, -1>>
            /\ op = "ID" => idRet = -1

C11_Witness ==
    /\ op = "Unpack"
    /\ hashOrigin = "NewHash" /\ hashS = Website /\ hashID = MaxStoreID + 1
    /\ hash = 0
    /\ unpacked = <<Absent, 0>>

\* the inputs NewHash rejects: an ID above MaxStoreID, or a negative ID with
\* a scope above Default
Rejected(s, id) == id > MaxStoreID \/ (s \in {Website, Group, Store} /\ id < 0)

\* C12 as claimed: the zero hash returned for a rejected input is the
\* Default/0 hash: it equals DefaultHash and NewHash(Default, 0).
C12_ZeroIsDefault ==
    (op = "NewHash" /\ Rejected(hashS, hashID))
    => /\ hash = 0
       /\ hash = DefaultHash
       /\ hash = NewHash(Default, 0)

\* C12 (amended): NewHash returns the zero hash for a rejected input, and the
\* zero hash is the Absent/0 hash, not the Default/0 hash: NewHash(Default, 0)
\* is DefaultHash = Hash(Default)<<24, which is not zero, so a failed
\* construction differs by value from an explicit default; it equals what
\* NewHash returns for the scope Absent.
C12_ZeroIsAbsent ==
    /\ (op = "NewHash" /\ Rejected(hashS, hashID))
         => hash = 0 /\ hash # DefaultHash
    /\ (op = "NewHash" /\ hashS = Default /\ hashID = 0)
         => hash = DefaultHash /\ hash = Default * Pow24 /\ hash # 0
    /\ (op = "NewHash" /\ hashS = Absent /\ hashID <= MaxStoreID)
         => hash = 0
    /\ (op = "Unpack" /\ hash = 0) => unpacked = <<Absent, 0>>

C12_Witness ==
    /\ op = "NewHash"
    /\ hashS = Store /\ hashID = -1
    /\ hash = 0
    /\ hash # DefaultHash

\* C13: NewHash returns 0 exactly when the id is greater than MaxStoreID, or
\* smaller than 0, or the scope is Default and the id is not 0; for every
\* other input it returns Hash(scope)<<24 | id. (Stated for the scope kinds
\* Default, Website, Group and Store.)
C13_ErrorCases ==
    (op = "NewHash" /\ hashS # Absent)
    => IF \/ hashID > MaxStoreID
          \/ hashID < 0
          \/ (hashS = Default /\ hashID # 0)
       THEN hash = 0
       ELSE hash = hashS * Pow24 + hashID

\* the scope byte and the ID part of a raw hash, and whether the hash is
\* scope/id with an ID in [0, MaxStoreID]
TagOf(h) == h \div Pow24
IDPartOf(h) == h % Pow24
IsHashOf(h, scope) == TagOf(h) = scope /\ IDPartOf(h) <= MaxStoreID
IsDefaultZero(h) == TagOf(h) = Default /\ IDPartOf(h) = 0

\* C14: child.ValidParent(parent) is true exactly for Default/0 under
\* Default/0, Website/anyID under Default/0 and Store/anyID under
\* Website/anyID, IDs in [0, MaxStoreID]; false for every other pair.
C14_ValidParentChains ==
    op = "ValidParent"
    => (parentRet <=>
          \/ (IsDefaultZero(hash) /\ IsDefaultZero(hash2))
          \/ (IsHashOf(hash, Website) /\ IsDefaultZero(hash2))
          \/ (IsHashOf(hash, Store) /\ IsHashOf(hash2, Website)))

C14_Witness ==
    /\ op = "ValidParent"
    /\ hash = Store * Pow24 + MaxStoreID
    /\ hash2 = Website * Pow24 + 1
    /\ parentRet = TRUE

\* a hash that is Absent or invalid: scope byte Absent, or an ID part above
\* MaxStoreID
IsInvalidHash(h) == TagOf(h) = Absent \/ IDPartOf(h) > MaxStoreID

\* C15: EqualScope is false whenever either hash is Absent or invalid, even
\* for identical bit patterns; otherwise it is true exactly when the scope
\* kinds are equal, whatever the IDs.
C15_EqualScope ==
    op = "EqualScope"
    => IF IsInvalidHash(hash) \/ IsInvalidHash(hash2)
       THEN equalRet = FALSE
       ELSE equalRet = (TagOf(hash) = TagOf(hash2))

ScopedGetters == {<<Default, 0>>, <<Website, 1>>, <<Store, 1>>}
CacheHashes == {NewHash(sg[1], sg[2]) : sg \in ScopedGetters}

errConfigNotFound == "ConfigNotFound"
errOptionError == "optionError"
errNotSupported == "NotSupported"

\* the options applied to the service; AddError stands for an option that
\* reports its failure through Service.AddError
HashOptions ==
    {[name |-> n, h |-> h] :
        n \in {"WithDefaultConfig", "withValue", "withLastErr"}, h \in CacheHashes}
AddErrorOpt == [name |-> "AddError", h |-> 0]
AllOptions == HashOptions \cup {AddErrorOpt}

\* what the scope option function hands back for a scoped getter
ScopedOptions(sg) ==
    IF sg = NoGetter THEN {NoOpt, AddErrorOpt}
    ELSE {NoOpt, AddErrorOpt}
         \cup {[name |-> n, h |-> NewHash(sg[1], sg[2])] :
                  n \in {"withValue", "withLastErr"}}

\* options that write to the map: they take the write lock
TakesLock(opt) ==
    \/ opt.name = "withValue"
    \/ opt.name \in {"WithDefaultConfig", "withLastErr"} /\ opt.h # DefaultHash

\* m[h] = sc
MapSet(m, h, sc) == [x \in DOMAIN m \cup {h} |-> IF x = h THEN sc ELSE m[x]]

\* optionInheritDefault: a copy of the default-scope configuration
optionInheritDefault(def) == def

\* the entry an option stores under opt.h
OptionEntry(opt, m, def) ==
    LET sc == IF opt.h \in DOMAIN m THEN m[opt.h] ELSE optionInheritDefault(def)
    IN  CASE opt.name = "WithDefaultConfig" ->
               [newScopedConfig EXCEPT !.scopeHash = opt.h]
          [] opt.name = "withValue" ->
               [sc EXCEPT !.value = "val", !.scopeHash = opt.h]
          [] opt.name = "withLastErr" ->
               [sc EXCEPT !.lastErr = TRUE, !.scopeHash = opt.h]

\* the map after an option ran
MapAfter(opt, m, def) ==
    IF TakesLock(opt) THEN MapSet(m, opt.h, OptionEntry(opt, m, def)) ELSE m

\* the default-scope configuration after an option ran
DefaultAfter(opt, def) ==
    IF opt.h # DefaultHash THEN def
    ELSE CASE opt.name = "WithDefaultConfig" -> [newScopedConfig EXCEPT !.log = TRUE]
           [] opt.name = "withLastErr" -> [def EXCEPT !.lastErr = TRUE]
           [] OTHER -> def

\* Service.AddError keeps the first error
AddError(opt, oe) == oe \/ opt.name = "AddError"

OptionsResultNoScan(m, oe) ==
    IF oe THEN errOptionError ELSE ErrNil

\* the tail of Service.Options: the option error, then the scan of the keys
OptionsResult(m, oe) ==
    IF oe THEN errOptionError
    ELSE IF \E h \in DOMAIN m : Unpack(h)[1] > Website THEN errNotSupported
    ELSE ErrNil

\* the fast path of configByScopedGetter
FastPathNoNilCheck(fnc, sg, h, def) ==
    ~fnc /\ h = DefaultHash /\ IsValid(def)

FastPath(fnc, sg, h, def) ==
    (~fnc \/ sg = NoGetter) /\ h = DefaultHash /\ IsValid(def)

\* getConfigByScopeID serving the default scope in place of an invalid entry
getConfigByScopeIDLenient(fallback, sc, ok, def) ==
    IF ok /\ IsValid(sc) THEN <<sc, ErrNil>>
    ELSE IF fallback
    THEN <<def, IF ~IsValid(def) THEN errConfigNotFound ELSE ErrNil>>
    ELSE <<emptyConfig, errConfigNotFound>>

\* getConfigByScopeID without the fallback to the default scope
getConfigByScopeIDNoFallback(fallback, sc, ok, def) ==
    IF ok
    THEN IF IsValid(sc) THEN <<sc, ErrNil>> ELSE <<emptyConfig, ErrNotValid>>
    ELSE <<emptyConfig, errConfigNotFound>>

\* getConfigByScopeID, given what getScopedConfig returned
getConfigByScopeID(fallback, sc, ok, def) ==
    IF ok
    THEN IF IsValid(sc) THEN <<sc, ErrNil>> ELSE <<emptyConfig, ErrNotValid>>
    ELSE IF fallback
    THEN <<def, IF ~IsValid(def) THEN errConfigNotFound ELSE ErrNil>>
    ELSE <<emptyConfig, errConfigNotFound>>

(***************************************************************************)
(* Actions of the cache: every access to the service is one step, so that  *)
(* goroutines interleave between the lock operations as in the code        *)
(***************************************************************************)
serviceState == <<constructed, scopeCache, defaultScopeCache, scpOptionFnc,
                  optionError, pulled, mapWriteUnlocked>>

\* goroutine g wrote to the service: calls in flight elsewhere are disturbed
Touch(g) ==
    interfered' = [x \in Goroutines |->
                      interfered[x] \/ (x # g /\ local[x].pc # "idle")]

\* goroutines are interchangeable: a new call runs on the first idle one
NextFree(g) ==
    /\ local[g].pc = "idle"
    /\ \A x \in Goroutines : x < g => local[x].pc # "idle"

\* mu without the locks g holds
Unlocked(g) == [w |-> IF mu.w = g THEN 0 ELSE mu.w, r |-> mu.r \ {g}]

\* the locals of a call that returned (ret, err)
Done(l, r, e) ==
    [l EXCEPT !.pc = "done", !.ret = r, !.err = e, !.fallback = FALSE,
              !.sc = emptyConfig, !.ok = FALSE, !.opt = NoOpt]

\* New(opts...): the forced WithDefaultConfig(scope.Default, 0), then opts;
\* fnc tells whether opts installs a scope option function
New(fnc, opt) ==
    LET seed == [name |-> "WithDefaultConfig", h |-> NewHash(Default, 0)]
        def1 == DefaultAfter(seed, defaultScopeCache)
        m1 == MapAfter(seed, scopeCache, defaultScopeCache)
        oe1 == AddError(seed, optionError)
        def2 == DefaultAfter(opt, def1)
        m2 == MapAfter(opt, m1, def1)
        oe2 == AddError(opt, oe1)
    IN  /\ constructed = "no"
        /\ OptionsResult(m1, oe1) = ErrNil
        /\ constructed' = IF OptionsResult(m2, oe2) = ErrNil THEN "yes" ELSE "failed"
        /\ scopeCache' = m2
        /\ defaultScopeCache' = def2
        /\ optionError' = oe2
        /\ scpOptionFnc' = fnc
        /\ UNCHANGED <<mu, local, interfered, pulled, mapWriteUnlocked, numCalls>>
        /\ UNCHANGED cacheFrame

\* configByScopedGetter(sg) up to its fast path
configByScopedGetter(g, sg) ==
    LET h == IF sg = NoGetter THEN DefaultHash ELSE NewHash(sg[1], sg[2])
        start == [Idle EXCEPT !.kind = "lookup", !.sg = sg, !.h = h,
                     !.pre = [hit |-> h \in DOMAIN scopeCache /\ IsValid(scopeCache[h]),
                              defValid |-> IsValid(defaultScopeCache)]]
    IN  /\ constructed = "yes"
        /\ NextFree(g)
        /\ numCalls < MaxCalls
        /\ numCalls' = numCalls + 1
        /\ local' = [local EXCEPT ![g] =
                        IF FastPath(scpOptionFnc, sg, h, defaultScopeCache)
                        THEN Done(start, defaultScopeCache, ErrNil)
                        ELSE [start EXCEPT !.pc = "get"]]
        /\ interfered' = [interfered EXCEPT ![g] = FALSE]
        /\ UNCHANGED <<serviceState, mu>>
        /\ UNCHANGED cacheFrame

\* getScopedConfig: s.mu.RLock()
GetRLock(g) ==
    /\ local[g].pc = "get"
    /\ mu.w = 0
    /\ mu' = [mu EXCEPT !.r = @ \cup {g}]
    /\ local' = [local EXCEPT ![g].pc = "getR"]
    /\ UNCHANGED <<serviceState, interfered, numCalls>>
    /\ UNCHANGED cacheFrame

\* getScopedConfig: sc, ok = s.scopeCache[h]; s.mu.RUnlock(); copy of the logger
GetRead(g) ==
    LET l == local[g]
        ok == l.h \in DOMAIN scopeCache
        sc == IF ok THEN scopeCache[l.h] ELSE emptyConfig
        hasChanges == ok /\ ~sc.log
    IN  /\ l.pc = "getR"
        /\ mu' = Unlocked(g)
        /\ local' = [local EXCEPT ![g] =
                        [l EXCEPT !.pc = IF hasChanges THEN "getL" ELSE "getX",
                                  !.ok = ok,
                                  !.sc = IF hasChanges
                                         THEN [sc EXCEPT !.log = defaultScopeCache.log]
                                         ELSE sc,
                                  !.trace = @ \cup {"map"}]]
        /\ UNCHANGED <<serviceState, interfered, numCalls>>
        /\ UNCHANGED cacheFrame

\* getScopedConfig taking the read lock for its write
GetLockAsRLock(g) ==
    /\ local[g].pc = "getL"
    /\ mu.w = 0
    /\ mu' = [mu EXCEPT !.r = @ \cup {g}]
    /\ local' = [local EXCEPT ![g].pc = "getW"]
    /\ UNCHANGED <<serviceState, interfered, numCalls>>
    /\ UNCHANGED cacheFrame

\* getScopedConfig: s.mu.Lock()
GetLock(g) ==
    /\ local[g].pc = "getL"
    /\ mu.w = 0 /\ mu.r = {}
    /\ mu' = [mu EXCEPT !.w = g]
    /\ local' = [local EXCEPT ![g].pc = "getW"]
    /\ UNCHANGED <<serviceState, interfered, numCalls>>
    /\ UNCHANGED cacheFrame

\* getScopedConfig: s.scopeCache[h] = sc; s.mu.Unlock()
GetWrite(g) ==
    LET l == local[g] IN
    /\ l.pc = "getW"
    /\ scopeCache' = MapSet(scopeCache, l.h, l.sc)
    /\ mapWriteUnlocked' = (mapWriteUnlocked \/ mu.w # g)
    /\ mu' = Unlocked(g)
    /\ local' = [local EXCEPT ![g] = [l EXCEPT !.pc = "getX", !.trace = @ \cup {"wb"}]]
    /\ Touch(g)
    /\ UNCHANGED <<constructed, defaultScopeCache, scpOptionFnc, optionError, pulled,
                   numCalls>>
    /\ UNCHANGED cacheFrame

\* configByScopedGetter after getConfigByScopeID(fallback, h)
GetEval(g) ==
    LET l == local[g]
        res == getConfigByScopeID(l.fallback, l.sc, l.ok, defaultScopeCache)
    IN  /\ l.pc = "getX"
        /\ local' = [local EXCEPT ![g] =
                        IF l.fallback \/ res[2] = ErrNil THEN Done(l, res[1], res[2])
                        ELSE IF scpOptionFnc
                        THEN [l EXCEPT !.pc = "fnc", !.sc = emptyConfig, !.ok = FALSE]
                        ELSE [l EXCEPT !.pc = "get", !.fallback = TRUE,
                                       !.sc = emptyConfig, !.ok = FALSE]]
        /\ UNCHANGED <<serviceState, mu, interfered, numCalls>>
        /\ UNCHANGED cacheFrame

\* configByScopedGetter: s.scpOptionFnc(sg) hands back opt
InvokeFnc(g, opt) ==
    LET l == local[g]
        again == /\ l.h \in pulled
                 /\ l.h \in DOMAIN scopeCache
                 /\ IsValid(scopeCache[l.h])
    IN  /\ l.pc = "fnc"
        /\ opt \in ScopedOptions(l.sg)
        /\ local' = [local EXCEPT ![g] =
                        [l EXCEPT !.pc = "opt", !.opt = opt,
                                  !.trace = @ \cup {"fnc"}
                                              \cup (IF again THEN {"refnc"} ELSE {})]]
        /\ UNCHANGED <<serviceState, mu, interfered, numCalls>>
        /\ UNCHANGED cacheFrame

\* Service.Options(opt) called on the constructed service
OptionsCall(g, opt) ==
    /\ constructed = "yes"
    /\ NextFree(g)
    /\ numCalls < MaxCalls
    /\ numCalls' = numCalls + 1
    /\ local' = [local EXCEPT ![g] =
                    [Idle EXCEPT !.pc = "opt", !.kind = "options", !.opt = opt]]
    /\ interfered' = [interfered EXCEPT ![g] = FALSE]
    /\ UNCHANGED <<serviceState, mu>>
    /\ UNCHANGED cacheFrame

\* Options: opt(s) for an option that does not touch the map
OptDirect(g) ==
    LET l == local[g] IN
    /\ l.pc = "opt"
    /\ ~TakesLock(l.opt)
    /\ defaultScopeCache' = DefaultAfter(l.opt, defaultScopeCache)
    /\ optionError' = AddError(l.opt, optionError)
    /\ local' = [local EXCEPT ![g].pc = "chk"]
    /\ IF l.opt = NoOpt THEN UNCHANGED interfered ELSE Touch(g)
    /\ UNCHANGED <<constructed, scopeCache, scpOptionFnc, pulled, mapWriteUnlocked, mu,
                   numCalls>>
    /\ UNCHANGED cacheFrame

\* Options: opt(s) for an option of the map, s.mu.Lock()
OptLock(g) ==
    /\ local[g].pc = "opt"
    /\ TakesLock(local[g].opt)
    /\ mu.w = 0 /\ mu.r = {}
    /\ mu' = [mu EXCEPT !.w = g]
    /\ local' = [local EXCEPT ![g].pc = "optW"]
    /\ UNCHANGED <<serviceState, interfered, numCalls>>
    /\ UNCHANGED cacheFrame

\* Options: opt(s) for an option of the map, the write and s.mu.Unlock()
OptWrite(g) ==
    LET l == local[g]
        m == MapAfter(l.opt, scopeCache, defaultScopeCache)
    IN  /\ l.pc = "optW"
        /\ scopeCache' = m
        /\ mapWriteUnlocked' = (mapWriteUnlocked \/ mu.w # g)
        /\ mu' = Unlocked(g)
        /\ pulled' = IF l.kind = "lookup" /\ l.opt.h = l.h /\ IsValid(m[l.h])
                     THEN pulled \cup {l.h} ELSE pulled
        /\ local' = [local EXCEPT ![g].pc = "chk"]
        /\ Touch(g)
        /\ UNCHANGED <<constructed, defaultScopeCache, scpOptionFnc, optionError,
                       numCalls>>
        /\ UNCHANGED cacheFrame

\* Options: return s.optionError
OptError(g) ==
    LET l == local[g] IN
    /\ l.pc = "chk"
    /\ optionError
    /\ local' = [local EXCEPT ![g] = Done(l, emptyConfig, errOptionError)]
    /\ UNCHANGED <<serviceState, mu, interfered, numCalls>>
    /\ UNCHANGED cacheFrame

\* Options: s.mu.RLock() for the scan of the keys
OptRLock(g) ==
    /\ local[g].pc = "chk"
    /\ ~optionError
    /\ mu.w = 0
    /\ mu' = [mu EXCEPT !.r = @ \cup {g}]
    /\ local' = [local EXCEPT ![g].pc = "chkR"]
    /\ UNCHANGED <<serviceState, interfered, numCalls>>
    /\ UNCHANGED cacheFrame

\* Options: the scan of the keys and s.mu.RUnlock(); a lookup goes on with
\* getConfigByScopeID(true, h)
OptScan(g) ==
    LET l == local[g]
        e == OptionsResult(scopeCache, FALSE)
    IN  /\ l.pc = "chkR"
        /\ mu' = Unlocked(g)
        /\ local' = [local EXCEPT ![g] =
                        IF e # ErrNil \/ l.kind = "options" THEN Done(l, emptyConfig, e)
                        ELSE [l EXCEPT !.pc = "get", !.fallback = TRUE, !.opt = NoOpt]]
        /\ UNCHANGED <<serviceState, interfered, numCalls>>
        /\ UNCHANGED cacheFrame

\* the caller takes the result
Return(g) ==
    /\ local[g].pc = "done"
    /\ local' = [local EXCEPT ![g] = Idle]
    /\ UNCHANGED <<serviceState, mu, interfered, numCalls>>
    /\ UNCHANGED cacheFrame

InitCache == Init

NextCache ==
    \/ \E fnc \in BOOLEAN, opt \in AllOptions \cup {NoOpt} : New(fnc, opt)
    \/ \E g \in Goroutines, sg \in ScopedGetters \cup {NoGetter} : configByScopedGetter(g, sg)
    \/ \E g \in Goroutines : GetRLock(g)
    \/ \E g \in Goroutines : GetRead(g)
    \/ \E g \in Goroutines : GetLock(g)
    \/ \E g \in Goroutines : GetWrite(g)
    \/ \E g \in Goroutines : GetEval(g)
    \/ \E g \in Goroutines, opt \in AllOptions : InvokeFnc(g, opt)
    \/ \E g \in Goroutines, opt \in AllOptions : OptionsCall(g, opt)
    \/ \E g \in Goroutines : OptDirect(g)
    \/ \E g \in Goroutines : OptLock(g)
    \/ \E g \in Goroutines : OptWrite(g)
    \/ \E g \in Goroutines : OptError(g)
    \/ \E g \in Goroutines : OptRLock(g)
    \/ \E g \in Goroutines : OptScan(g)
    \/ \E g \in Goroutines : Return(g)

SpecCache == InitCache /\ [][NextCache]_vars

(***************************************************************************)
(* Claims about the scoped-config cache                                    *)
(***************************************************************************)
\* goroutine g holds the result of a configByScopedGetter call, and no other
\* goroutine wrote to the service since the call began
Served(g) ==
    local[g].pc = "done" /\ local[g].kind = "lookup" /\ ~interfered[g]

\* the call of g found the cache with a valid entry for its own, non-default hash
Populated(g) == local[g].pre.hit /\ local[g].h # DefaultHash

\* such a lookup returns that entry and not the default one
ExactEntryServed(g) ==
    Populated(g) =>
        /\ local[g].err = ErrNil
        /\ local[g].ret = scopeCache[local[g].h]
        /\ local[g].ret.scopeHash = local[g].h
        /\ local[g].ret # defaultScopeCache

C18_NilGetter ==
    \A g \in Goroutines :
        (local[g].kind = "lookup" /\ local[g].sg = NoGetter) =>
            /\ local[g].h = DefaultHash
            /\ local[g].pre.defValid =>
                 /\ local[g].pc = "done"
                 /\ local[g].trace = {}
                 /\ local[g].err = ErrNil
                 /\ IsValid(local[g].ret)
                 /\ local[g].ret.scopeHash = DefaultHash
                 /\ ~interfered[g] => local[g].ret = defaultScopeCache

C18_Witness ==
    \E g \in Goroutines :
        /\ local[g].kind = "lookup" /\ local[g].sg = NoGetter
        /\ local[g].pc = "done"
        /\ scpOptionFnc
        /\ NewHash(Website, 1) \in DOMAIN scopeCache
        /\ DefaultHash \in DOMAIN scopeCache
        /\ local[g].ret = defaultScopeCache
        /\ local[g].trace = {}

\* C19: the configuration of a Hash is pulled from the backend one time:
\* once a lookup has populated a valid entry for h, the scope option function
\* is not invoked for h again, neither by a later lookup nor by a concurrent
\* first lookup for the same h
C19_PulledOnce ==
    \A g \in Goroutines : "refnc" \notin local[g].trace

\* C20: every write to the Hash->config map happens with the exclusive
\* write lock held, and the default-scope entry seeded by New through
\* WithDefaultConfig(Default, 0) stays present: it is overwritten, never removed
C20_WriteLocked ==
    constructed = "yes" =>
        /\ ~mapWriteUnlocked
        /\ \A g \in Goroutines :
              local[g].pc \in {"getW", "optW"} => (mu.w = g /\ mu.r = {})
        /\ defaultScopeCache.scopeHash = DefaultHash
        /\ defaultScopeCache # emptyConfig

C20_Witness ==
    \E g \in Goroutines :
        /\ constructed = "yes"
        /\ "wb" \in local[g].trace
        /\ local[g].pc = "done"
        /\ scopeCache[local[g].h].log
        /\ defaultScopeCache.lastErr
        /\ ~mapWriteUnlocked

(***************************************************************************)
(* config.Service: Write, the typed reads and IsSet at an exact path       *)
(***************************************************************************)
basePath == [Route |-> <<"aa", "bb", "cc">>, ScopeHash |-> DefaultHash]

\* cfgpath.Path.Bind
Bind(p, s, id) == [p EXCEPT !.ScopeHash = NewHash(s, id)]

ServicePaths == {basePath, NoPath, Bind(basePath, Website, 10), Bind(basePath, Store, 22)}

\* the values written: one per supported type, and struct{}{}
Unsupported == [T |-> "struct", v |-> "struct{}{}"]
ServiceValues == {[T |-> T, v |-> SomeValue(T)] : T \in Accessors} \cup {Unsupported}

\* cfgpath.Path.IsValid
IsValidPath(p) == IsValidRoute(p.Route)

\* Write refusing a value none of the typed reads can hand out
ServiceWriteTyped(st, p, v) ==
    IF ~IsValidPath(p) \/ v.T \notin Accessors
    THEN [st |-> st, err |-> ErrNotValid]
    ELSE [st |-> [k \in DOMAIN st \cup {p} |-> IF k = p THEN v ELSE st[k]],
          err |-> ErrNil]

\* Service.Write(p, v): the raw value is stored under the path
ServiceWrite(st, p, v) ==
    IF ~IsValidPath(p) THEN [st |-> st, err |-> ErrNotValid]
    ELSE [st |-> [k \in DOMAIN st \cup {p} |-> IF k = p THEN v ELSE st[k]],
          err |-> ErrNil]

\* the cast of a stored raw value to the type of the accessor
Cast(T, raw) ==
    IF raw.T = T THEN [v |-> raw.v, err |-> ErrNil]
    ELSE [v |-> ZeroValue(T), err |-> ErrNotValid]

\* the typed read without the validation of the path
ServiceGetNoValidate(st, T, p) ==
    IF p \notin DOMAIN st THEN [v |-> ZeroValue(T), err |-> ErrNotFound]
    ELSE Cast(T, st[p])

\* Service.String/Bool/Float64/Int/Time/Byte(p)
ServiceGet(st, T, p) ==
    IF ~IsValidPath(p) THEN [v |-> ZeroValue(T), err |-> ErrNotValid]
    ELSE IF p \notin DOMAIN st THEN [v |-> ZeroValue(T), err |-> ErrNotFound]
    ELSE Cast(T, st[p])

\* Service.IsSet(p)
ServiceIsSet(st, p) == IsValidPath(p) /\ p \in DOMAIN st

SvcWrite(p, v) ==
    LET w == ServiceWrite(svcStorage, p, v) IN
    /\ svcOp \in {"init", "Write"}
    /\ svcStorage' = w.st
    /\ svcOp' = "Write"
    /\ svcWrite' = [p |-> p, v |-> v, err |-> w.err]
    /\ UNCHANGED svcRead
    /\ UNCHANGED <<op, resolverVars, hashVars, cacheVars, storeVars, rlVars, mgrVars,
                   extraVars>>

\* a typed read and IsSet; the stored value has the type of the accessor or
\* is of no supported type, as in the tests
SvcRead(T, p) ==
    LET r == ServiceGet(svcStorage, T, p) IN
    /\ svcOp = "Write"
    /\ p \in DOMAIN svcStorage => svcStorage[p].T \in {T, "struct"}
    /\ svcOp' = "Read"
    /\ svcRead' = [T |-> T, p |-> p, v |-> r.v, err |-> r.err,
                   isSet |-> ServiceIsSet(svcStorage, p)]
    /\ UNCHANGED <<svcStorage, svcWrite>>
    /\ UNCHANGED <<op, resolverVars, hashVars, cacheVars, storeVars, rlVars, mgrVars,
                   extraVars>>

InitService == Init

NextService ==
    \/ \E p \in ServicePaths, v \in ServiceValues : SvcWrite(p, v)
    \/ \E T \in Accessors, p \in ServicePaths : SvcRead(T, p)

SpecService == InitService /\ [][NextService]_vars

\* the read follows a Write to the path it reads
ReadBack == svcOp = "Read" /\ svcRead.p = svcWrite.p

\* C21: after Write(p, v) with a well-formed path and a value of a supported
\* type, the read of that type at exactly p returns v without error and
\* IsSet(p) is true; for the empty Path, Write and every typed read fail with
\* NotValid, the value read is empty and IsSet is false
C21_RoundTrip ==
    /\ (ReadBack /\ IsValidPath(svcWrite.p) /\ svcRead.T = svcWrite.v.T)
       => /\ svcWrite.err = ErrNil
          /\ svcRead.err = ErrNil
          /\ svcRead.v = svcWrite.v.v
          /\ svcRead.isSet
    /\ (svcOp # "init" /\ svcWrite.p = NoPath) => svcWrite.err = ErrNotValid
    /\ (svcOp = "Read" /\ svcRead.p = NoPath)
       => /\ svcRead.err = ErrNotValid
          /\ svcRead.v = ZeroValue(svcRead.T)
          /\ ~svcRead.isSet

C21_Witness ==
    /\ ReadBack
    /\ svcWrite.p = Bind(basePath, Store, 22)
    /\ svcWrite.v = [T |-> "Time", v |-> SomeValue("Time")]
    /\ svcRead.T = "Time"
    /\ svcRead.v = SomeValue("Time")
    /\ Bind(basePath, Website, 10) \in DOMAIN svcStorage

\* the last Write handed a value of no supported type to a well-formed path
WroteUnsupported ==
    svcOp # "init" /\ IsValidPath(svcWrite.p) /\ svcWrite.v = Unsupported

-----------------------------------------------------------------------------
(* store.Service and its factory (package store): the raw table rows of the  *)
(* backend, the caches built from them, IDbyCode, and LoadFromDB with its    *)
(* three loader goroutines.                                                   *)

EmptyMap == <<>>

TableWebsite(id, code, isDefault, defaultGroup) ==
    [WebsiteID |-> id, Code |-> code, IsDefault |-> isDefault,
     DefaultGroupID |-> defaultGroup]
TableGroup(id, websiteID, defaultStore) ==
    [GroupID |-> id, WebsiteID |-> websiteID, DefaultStoreID |-> defaultStore]
TableStore(id, code, websiteID, groupID) ==
    [StoreID |-> id, Code |-> code, WebsiteID |-> websiteID, GroupID |-> groupID]

\* the database contents a load can find
dbEuro ==
    [websites |-> {TableWebsite(1, "euro", TRUE, 1)},
     groups   |-> {TableGroup(1, 1, 1)},
     stores   |-> {TableStore(1, "de", 1, 1)}]
dbWorld ==
    [websites |-> {TableWebsite(1, "euro", TRUE, 1), TableWebsite(2, "oz", FALSE, 2)},
     groups   |-> {TableGroup(1, 1, 2), TableGroup(2, 2, 2)},
     stores   |-> {TableStore(1, "de", 1, 1), TableStore(2, "au", 2, 2)}]
\* a group whose website is missing
dbBroken ==
    [websites |-> {TableWebsite(1, "euro", TRUE, 1)},
     groups   |-> {TableGroup(1, 2, 1)},
     stores   |-> {}]
Databases == {dbEuro, dbWorld, dbBroken}
Codes == {"", "de", "euro", "xx"}

MapByID(rows, key) ==
    IF rows = {} THEN EmptyMap
    ELSE [id \in {r[key] : r \in rows} |-> CHOOSE r \in rows : r[key] = id]

\* factory.Websites, Groups, Stores: the entities, or the integrity error
factoryWebsites(t) == [rows |-> t.websites, err |-> "nil"]
factoryGroups(t) ==
    IF \E g \in t.groups : ~\E w \in t.websites : w.WebsiteID = g.WebsiteID
    THEN [rows |-> {}, err |-> "NotFound"]
    ELSE [rows |-> t.groups, err |-> "nil"]
factoryStores(t) ==
    IF \E s \in t.stores :
          \/ ~\E w \in t.websites : w.WebsiteID = s.WebsiteID
          \/ ~\E g \in t.groups : g.GroupID = s.GroupID
    THEN [rows |-> {}, err |-> "NotFound"]
    ELSE [rows |-> t.stores, err |-> "nil"]

\* factory.DefaultStoreID
factoryDefaultStoreID(t) ==
    IF \E w \in t.websites : w.IsDefault
    THEN LET w == CHOOSE x \in t.websites : x.IsDefault
         IN  IF \E g \in t.groups : g.GroupID = w.DefaultGroupID
             THEN [id |-> (CHOOSE g \in t.groups : g.GroupID = w.DefaultGroupID).DefaultStoreID,
                   err |-> "nil"]
             ELSE [id |-> 0, err |-> "NotFound"]
    ELSE [id |-> 0, err |-> "NotFound"]

\* Service.loadFromOptions with the WithTable* options of the tables t
loadFromOptions(svc, t) ==
    LET s0 == [svc EXCEPT !.cacheWebsite = EmptyMap, !.cacheGroup = EmptyMap,
                          !.cacheStore = EmptyMap]
        ws == factoryWebsites(t)
        s1 == [s0 EXCEPT !.websites = ws.rows,
                         !.cacheWebsite = MapByID(ws.rows, "WebsiteID")]
        gs == factoryGroups(t)
        s2 == [s1 EXCEPT !.groups = gs.rows,
                         !.cacheGroup = MapByID(gs.rows, "GroupID")]
        st == factoryStores(t)
        s3 == [s2 EXCEPT !.stores = st.rows,
                         !.cacheStore = MapByID(st.rows, "StoreID")]
    IN  IF ws.err # "nil" THEN [svc |-> s0, err |-> ws.err]
        ELSE IF gs.err # "nil" THEN [svc |-> s1, err |-> gs.err]
        ELSE IF st.err # "nil" THEN [svc |-> s2, err |-> st.err]
        ELSE [svc |-> s3, err |-> "nil"]

\* Service.ClearCache
ClearCache(svc) ==
    [svc EXCEPT !.cacheWebsite = EmptyMap, !.cacheGroup = EmptyMap,
                !.cacheStore = EmptyMap, !.defaultStoreID = -1,
                !.websites = {}, !.groups = {}, !.stores = {}]

IDbyCodeNoEmptyCheck(t, scp, code) ==
    CASE scp = Store ->
           IF \E s \in t.stores : s.Code = code
           THEN [id |-> (CHOOSE s \in t.stores : s.Code = code).StoreID, err |-> "nil"]
           ELSE [id |-> 0, err |-> "NotFound"]
      [] scp = Website ->
           IF \E w \in t.websites : w.Code = code
           THEN [id |-> (CHOOSE w \in t.websites : w.Code = code).WebsiteID, err |-> "nil"]
           ELSE [id |-> 0, err |-> "NotFound"]
      [] scp = Default -> [id |-> 0, err |-> "nil"]
      [] OTHER -> [id |-> 0, err |-> "NotSupported"]

\* Service.IDbyCode over the backend tables t
IDbyCode(t, scp, code) ==
    IF code = "" THEN [id |-> 0, err |-> "Empty"]
    ELSE CASE scp = Store ->
                IF \E s \in t.stores : s.Code = code
                THEN [id |-> (CHOOSE s \in t.stores : s.Code = code).StoreID, err |-> "nil"]
                ELSE [id |-> 0, err |-> "NotFound"]
           [] scp = Website ->
                IF \E w \in t.websites : w.Code = code
                THEN [id |-> (CHOOSE w \in t.websites : w.Code = code).WebsiteID, err |-> "nil"]
                ELSE [id |-> 0, err |-> "NotFound"]
           [] scp = Default -> [id |-> 0, err |-> "nil"]
           [] OTHER -> [id |-> 0, err |-> "NotSupported"]

AfterBackendLoadAlways(via, err) ==
    IF via = "service" THEN [pc |-> "rebuild", ret |-> "none"]
    ELSE [pc |-> "done", ret |-> IF err THEN "backend" ELSE "nil"]

\* where the caller of factory.LoadFromDB goes when it has returned:
\* Service.LoadFromDB returns the error, or goes on to rebuild its caches
AfterBackendLoad(via, err) ==
    IF err THEN [pc |-> "done", ret |-> "backend"]
    ELSE IF via = "service" THEN [pc |-> "rebuild", ret |-> "none"]
    ELSE [pc |-> "done", ret |-> "nil"]

storeFrame == <<op, resolverVars, hashVars, cacheVars, svcVars, rlVars, mgrVars, extraVars>>

\* store.NewService with the tables of db
NewService(db) ==
    /\ storeState = "no"
    /\ LET r == loadFromOptions(NoCaches, db)
       IN  /\ storeState' = IF r.err = "nil" THEN "yes" ELSE "failed"
           /\ storeSvc' = r.svc
    /\ backend' = db
    /\ UNCHANGED <<loaders, loadMain, svcBefore, storeRet, storeFrame>>

\* Service.IDbyCode(scp, code), called while no loader is at work
IDbyCodeCall(scp, code) ==
    /\ storeState = "yes"
    /\ loadMain.pc \in {"idle", "done"}
    /\ \A l \in Loaders : loaders[l].pc \in {"idle", "done", "panic"}
    /\ LET r == IDbyCode(backend, scp, code)
       IN  storeRet' = [scp |-> scp, code |-> code, id |-> r.id, err |-> r.err,
                        t |-> backend]
    /\ UNCHANGED <<storeState, backend, storeSvc, loaders, loadMain, svcBefore,
                   storeFrame>>

\* Service.DefaultStoreView: remembers the default store id
DefaultStoreView ==
    /\ storeState = "yes"
    /\ loadMain.pc = "idle"
    /\ ~(storeSvc.defaultStoreID >= 0
         /\ storeSvc.defaultStoreID \in DOMAIN storeSvc.cacheStore)
    /\ LET r == factoryDefaultStoreID(backend)
       IN  /\ r.err = "nil"
           /\ storeSvc' = [storeSvc EXCEPT !.defaultStoreID = r.id]
    /\ UNCHANGED <<storeState, backend, loaders, loadMain, svcBefore, storeRet,
                   storeFrame>>

\* LoadFromDB is called, on the Service or on its factory: the three loader
\* goroutines are started and the caller waits on errc
LoadFromDB(via, db, fail) ==
    /\ storeState = "yes"
    /\ loadMain.pc = "idle"
    /\ loadMain' = [pc |-> "recv", received |-> 0, via |-> via, ret |-> "none",
                    db |-> db, fail |-> fail]
    /\ loaders' = [l \in Loaders |-> [pc |-> "clear", err |-> FALSE]]
    /\ svcBefore' = storeSvc
    /\ UNCHANGED <<storeState, backend, storeSvc, storeRet, storeFrame>>

\* a loader nils the rows of its slice and the slice
LoaderClear(l) ==
    /\ loaders[l].pc = "clear"
    /\ backend' = [backend EXCEPT ![l] = {}]
    /\ loaders' = [loaders EXCEPT ![l].pc = "select"]
    /\ UNCHANGED <<storeState, storeSvc, loadMain, svcBefore, storeRet, storeFrame>>

\* a loader's SQLSelect fills its slice, or fails
LoaderSelect(l) ==
    /\ loaders[l].pc = "select"
    /\ IF l \in loadMain.fail
       THEN /\ loaders' = [loaders EXCEPT ![l] = [pc |-> "send", err |-> TRUE]]
            /\ UNCHANGED backend
       ELSE /\ loaders' = [loaders EXCEPT ![l] = [pc |-> "send", err |-> FALSE]]
            /\ backend' = [backend EXCEPT ![l] = loadMain.db[l]]
    /\ UNCHANGED <<storeState, storeSvc, loadMain, svcBefore, storeRet, storeFrame>>

\* a loader sends its result on errc and the caller receives it: an error
\* nils the three slices and returns, the third nil result returns nil
LoaderSend(l) ==
    /\ loaders[l].pc = "send"
    /\ loadMain.pc = "recv"
    /\ loaders' = [loaders EXCEPT ![l].pc = "done"]
    /\ IF loaders[l].err
       THEN /\ backend' = NoTables
            /\ LET a == AfterBackendLoad(loadMain.via, TRUE)
               IN  loadMain' = [loadMain EXCEPT !.pc = a.pc, !.ret = a.ret]
       ELSE /\ UNCHANGED backend
            /\ IF loadMain.received + 1 = Cardinality(Loaders)
               THEN LET a == AfterBackendLoad(loadMain.via, FALSE)
                    IN  loadMain' = [loadMain EXCEPT !.pc = a.pc, !.ret = a.ret,
                                                     !.received = @ + 1]
               ELSE loadMain' = [loadMain EXCEPT !.received = @ + 1]
    /\ UNCHANGED <<storeState, storeSvc, svcBefore, storeRet, storeFrame>>

\* a loader sends on errc after the caller has returned and closed it
LoaderPanic(l) ==
    /\ loaders[l].pc = "send"
    /\ loadMain.pc # "recv"
    /\ loaders' = [loaders EXCEPT ![l].pc = "panic"]
    /\ UNCHANGED <<storeState, backend, storeSvc, loadMain, svcBefore, storeRet,
                   storeFrame>>

\* Service.LoadFromDB after the backend has loaded: ClearCache, then
\* loadFromOptions with the tables of the backend
Rebuild ==
    /\ loadMain.pc = "rebuild"
    /\ LET r == loadFromOptions(ClearCache(storeSvc), backend)
       IN  /\ storeSvc' = r.svc
           /\ loadMain' = [loadMain EXCEPT !.pc = "done",
                              !.ret = IF r.err = "nil" THEN "nil" ELSE "apply"]
    /\ UNCHANGED <<storeState, backend, loaders, svcBefore, storeRet, storeFrame>>

InitStore == Init

NextStore ==
    \/ \E db \in Databases : NewService(db)
    \/ \E scp \in Scopes, code \in Codes : IDbyCodeCall(scp, code)
    \/ DefaultStoreView
    \/ \E via \in {"service", "factory"}, db \in Databases, fail \in SUBSET Loaders :
          LoadFromDB(via, db, fail)
    \/ \E l \in Loaders : LoaderClear(l)
    \/ \E l \in Loaders : LoaderSelect(l)
    \/ \E l \in Loaders : LoaderSend(l)
    \/ \E l \in Loaders : LoaderPanic(l)
    \/ Rebuild

SpecStore == InitStore /\ [][NextStore]_vars


-----------------------------------------------------------------------------
(* Claims about store.Service and its factory.                               *)

\* the ids of the rows of the tables read by the last IDbyCode call that
\* carry its code
StoreIDsOfCode == {s.StoreID : s \in {x \in storeRet.t.stores : x.Code = storeRet.code}}
WebsiteIDsOfCode ==
    {w.WebsiteID : w \in {x \in storeRet.t.websites : x.Code = storeRet.code}}

\* C23 as stated: IDbyCode returns id 0 without error for every call with the
\* Default scope, NotFound for a Store or Website code that is not in the
\* backend tables, NotSupported for Group and every other scope kind, and an
\* Empty error for an empty code.
C23_AsClaimed ==
    storeRet.err # "none" =>
        /\ storeRet.scp = Default => storeRet.id = 0 /\ storeRet.err = "nil"
        /\ (storeRet.scp = Store /\ StoreIDsOfCode = {}) => storeRet.err = "NotFound"
        /\ (storeRet.scp = Website /\ WebsiteIDsOfCode = {}) =>
               storeRet.err = "NotFound"
        /\ storeRet.scp \notin {Default, Store, Website} =>
               storeRet.err = "NotSupported"
        /\ storeRet.code = "" => storeRet.err = "Empty"

\* C23 amended: an empty code returns the Empty error whatever the scope,
\* Default included; for a non-empty code the Default scope returns id 0
\* without error, a Store or Website code returns the id of its row or
\* NotFound when no row carries it, and every other scope kind returns
\* NotSupported.
C23_IDbyCode ==
    storeRet.err # "none" =>
        IF storeRet.code = ""
        THEN storeRet.id = 0 /\ storeRet.err = "Empty"
        ELSE /\ storeRet.scp = Default => storeRet.id = 0 /\ storeRet.err = "nil"
             /\ storeRet.scp = Store =>
                    IF StoreIDsOfCode = {}
                    THEN storeRet.id = 0 /\ storeRet.err = "NotFound"
                    ELSE storeRet.id \in StoreIDsOfCode /\ storeRet.err = "nil"
             /\ storeRet.scp = Website =>
                    IF WebsiteIDsOfCode = {}
                    THEN storeRet.id = 0 /\ storeRet.err = "NotFound"
                    ELSE storeRet.id \in WebsiteIDsOfCode /\ storeRet.err = "nil"
             /\ storeRet.scp \notin {Default, Store, Website} =>
                    storeRet.id = 0 /\ storeRet.err = "NotSupported"

\* IDbyCode was called with the Default scope and an empty code
C23_Witness ==
    /\ storeRet.scp = Default
    /\ storeRet.code = ""
    /\ storeRet.err = "Empty"

\* the caches Service.loadFromOptions builds from the tables t
CachesOf(t) ==
    [defaultStoreID |-> -1,
     websites |-> t.websites, groups |-> t.groups, stores |-> t.stores,
     cacheWebsite |-> MapByID(t.websites, "WebsiteID"),
     cacheGroup |-> MapByID(t.groups, "GroupID"),
     cacheStore |-> MapByID(t.stores, "StoreID")]

\* C26: when the backend load fails, Service.LoadFromDB returns that error
\* and the cache maps, the cached slices and defaultStoreID are as they were
\* before the call; when LoadFromDB returns nil, the caches hold exactly the
\* entities of the newly loaded tables.
C26_LoadFromDB ==
    (loadMain.via = "service" /\ loadMain.pc = "done") =>
        /\ loadMain.ret = "backend" => storeSvc = svcBefore
        /\ loadMain.ret = "nil" =>
              /\ backend = loadMain.db
              /\ storeSvc = CachesOf(loadMain.db)

\* Service.LoadFromDB has returned the error of the backend load, and the
\* caches it had before held entities and a default store id
C26_Witness ==
    /\ loadMain.via = "service"
    /\ loadMain.pc = "done"
    /\ loadMain.ret = "backend"
    /\ svcBefore.defaultStoreID >= 0
    /\ svcBefore.cacheStore # EmptyMap
    /\ loadMain.db # backend

\* C27: whenever factory.LoadFromDB has returned an error, the websites,
\* groups and stores slices are nil at the return and stay nil afterwards.
C27_NilAfterError ==
    loadMain.ret = "backend" => backend = NoTables


-----------------------------------------------------------------------------
(* Claims about ctxcors Service.Options.                                      *)

\* goroutine g is back from Service.Options and nothing ran beside it since
OptionsReturned(g) ==
    /\ local[g].pc = "done"
    /\ local[g].kind = "options"
    /\ ~interfered[g]

\* the cache holds a key of a scope more specific than Website
HasUnsupportedKey == \E h \in DOMAIN scopeCache : Unpack(h)[1] > Website

\* C24 as stated: Options returns a NotSupported error whenever, after the
\* options were applied, the cache holds a key of a scope more specific than
\* Website; and after a nil return every key has scope Default or Website.
C24_AsClaimed ==
    \A g \in Goroutines : OptionsReturned(g) =>
        /\ HasUnsupportedKey => local[g].err = errNotSupported
        /\ local[g].err = ErrNil => ~HasUnsupportedKey

\* C24 amended: Options returns the recorded option error when an option has
\* reported one, whatever the keys of the cache; otherwise it returns
\* NotSupported when the cache holds a key of a scope more specific than
\* Website and nil when it holds none. After a nil return every key has
\* scope Default or Website.
C24_Options ==
    \A g \in Goroutines : OptionsReturned(g) =>
        /\ optionError => local[g].err = errOptionError
        /\ (~optionError /\ HasUnsupportedKey) => local[g].err = errNotSupported
        /\ (~optionError /\ ~HasUnsupportedKey) => local[g].err = ErrNil
        /\ local[g].err = ErrNil => ~HasUnsupportedKey

\* Options has returned the option error while the cache holds a Store key
C24_Witness ==
    \E g \in Goroutines :
        /\ OptionsReturned(g)
        /\ HasUnsupportedKey
        /\ local[g].err = errOptionError


-----------------------------------------------------------------------------
(* ratelimit.Service: the functional options of New, applied in argument     *)
(* order to the scope cache.                                                  *)

MaxOpts == 3

\* the scopes the options are bound to: Default/0, Website/2 and Store/33
rlHashes == {DefaultHash, NewHash(Website, 2), NewHash(Store, 33)}

\* newScopedConfig: the defaults of an entry
rlNewScopedConfig ==
    [ScopeHash |-> DefaultHash, VaryByer |-> "emptyVaryBy", RateLimiter |-> "nil",
     DeniedHandler |-> "defaultDeniedHandler"]

\* the setters, the field each one sets and the value the caller passes
rlSetters == {"WithVaryBy", "WithRateLimiter", "WithDeniedHandler", "WithGCRAStore"}
rlField(name) ==
    CASE name = "WithVaryBy" -> "VaryByer"
      [] name = "WithDeniedHandler" -> "DeniedHandler"
      [] OTHER -> "RateLimiter"
rlValue(name) ==
    CASE name = "WithVaryBy" -> "vb"
      [] name = "WithRateLimiter" -> "rsl"
      [] name = "WithDeniedHandler" -> "dh"
      [] OTHER -> "gcra"
rlOptions ==
    {[name |-> n, h |-> h] : n \in rlSetters \cup {"WithDefaultConfig"}, h \in rlHashes}

\* ScopedConfig.IsValid: an entry without a RateLimiter is NotValid
rlIsValid(sc) == sc.ScopeHash # 0 /\ sc.RateLimiter # "nil"

rlWithDefaultConfigKeep(m, h) ==
    IF h \in DOMAIN m THEN m ELSE MapSet(m, h, [rlNewScopedConfig EXCEPT !.ScopeHash = h])

\* WithDefaultConfig(scp, id): the entry becomes the defaults
rlWithDefaultConfig(m, h) ==
    MapSet(m, h, [rlNewScopedConfig EXCEPT !.ScopeHash = h])

\* a setter: the entry, or a copy of the default entry when there is none,
\* with the setter's field replaced
rlSet(m, name, h) ==
    LET sc == IF h \in DOMAIN m THEN m[h] ELSE m[DefaultHash]
    IN  MapSet(m, h, [sc EXCEPT ![rlField(name)] = rlValue(name), !.ScopeHash = h])

rlApply(m, opt) ==
    IF opt.name = "WithDefaultConfig" THEN rlWithDefaultConfig(m, opt.h)
    ELSE rlSet(m, opt.name, opt.h)

rlFrame == <<op, resolverVars, hashVars, cacheVars, svcVars, storeVars, mgrVars, extraVars>>

\* New: the forced WithDefaultConfig(scope.Default, 0)
rlNew ==
    /\ rlCache = <<>>
    /\ rlCache' = rlWithDefaultConfig(rlCache, DefaultHash)
    /\ UNCHANGED <<rlApplied, rlFrame>>

\* New, Options: the next option of the argument list runs
rlOption(opt) ==
    /\ rlCache # <<>>
    /\ Len(rlApplied) < MaxOpts
    /\ rlCache' = rlApply(rlCache, opt)
    /\ rlApplied' = Append(rlApplied, opt)
    /\ UNCHANGED rlFrame

InitOptions == Init

NextOptions ==
    \/ rlNew
    \/ \E opt \in rlOptions : rlOption(opt)

SpecOptions == InitOptions /\ [][NextOptions]_vars

\* positions of the options bound to h
rlAt(h) == {i \in 1..Len(rlApplied) : rlApplied[i].h = h}
rlLast(h) == CHOOSE i \in rlAt(h) : \A j \in rlAt(h) : j <= i

\* C25: options are applied in argument order and later ones win. When
\* WithDefaultConfig is the last option for a scope, the entry holds the
\* defaults, whatever setters ran before, and is NotValid; a setter with no
\* later WithDefaultConfig and no later setter of the same field for its
\* scope keeps its value; the Default-scope entry exists in either order.
C25_LaterWins ==
    rlCache # <<>> =>
        /\ DefaultHash \in DOMAIN rlCache
        /\ \A h \in rlHashes : rlAt(h) # {} =>
              /\ h \in DOMAIN rlCache
              /\ rlApplied[rlLast(h)].name = "WithDefaultConfig" =>
                    /\ rlCache[h] = [rlNewScopedConfig EXCEPT !.ScopeHash = h]
                    /\ ~rlIsValid(rlCache[h])
              /\ \A i \in rlAt(h) :
                    (/\ rlApplied[i].name \in rlSetters
                     /\ \A j \in rlAt(h) : j > i =>
                           /\ rlApplied[j].name # "WithDefaultConfig"
                           /\ rlField(rlApplied[j].name) # rlField(rlApplied[i].name))
                    => rlCache[h][rlField(rlApplied[i].name)] = rlValue(rlApplied[i].name)

\* WithRateLimiter(Website, 2) then WithDefaultConfig(Website, 2): the rate
\* limiter is gone
C25_Witness ==
    /\ Len(rlApplied) = 2
    /\ rlApplied[1] = [name |-> "WithRateLimiter", h |-> NewHash(Website, 2)]
    /\ rlApplied[2] = [name |-> "WithDefaultConfig", h |-> NewHash(Website, 2)]
    /\ rlCache[NewHash(Website, 2)].RateLimiter = "nil"


-----------------------------------------------------------------------------
(* store.Manager: Init, InitByRequest, GetRequestStore and the lookups        *)
(* Website, Group and Store over a storage of websites, groups and stores.    *)

MaxMgrCalls == 3

ErrUnsupportedScopeID == "ErrUnsupportedScopeID"
ErrStoreChangeNotAllowed == "ErrStoreChangeNotAllowed"
ErrAppStoreNotSet == "ErrAppStoreNotSet"
ErrAppStoreSet == "ErrAppStoreSet"
ErrStoreNotActive == "ErrStoreNotActive"
ErrStoreNotFound == "ErrStoreNotFound"
ErrGroupNotFound == "ErrGroupNotFound"
ErrWebsiteNotFound == "ErrWebsiteNotFound"
ErrGroupDefaultStoreNotFound == "ErrGroupDefaultStoreNotFound"

\* the storage behind the manager: two websites, three groups (the default
\* store of group 2 is missing) and four stores (store 4 is not active)
mgrWebsites == {[WebsiteID |-> 1, DefaultGroupID |-> 1],
                [WebsiteID |-> 2, DefaultGroupID |-> 3]}
mgrGroups == {[GroupID |-> 1, WebsiteID |-> 1, DefaultStoreID |-> 1],
              [GroupID |-> 2, WebsiteID |-> 1, DefaultStoreID |-> 7],
              [GroupID |-> 3, WebsiteID |-> 2, DefaultStoreID |-> 3]}
mgrStores == {[StoreID |-> 1, WebsiteID |-> 1, GroupID |-> 1, IsActive |-> TRUE],
              [StoreID |-> 2, WebsiteID |-> 1, GroupID |-> 2, IsActive |-> TRUE],
              [StoreID |-> 3, WebsiteID |-> 2, GroupID |-> 3, IsActive |-> TRUE],
              [StoreID |-> 4, WebsiteID |-> 1, GroupID |-> 1, IsActive |-> FALSE]}

\* the ids a caller asks for
RetrieverIDs == {1, 2, 3, 4, 9}
Retrievers == RetrieverIDs \cup {NilRetriever}
\* the store a request's cookie names, if it has one
CookieStores == {NilRetriever, 3}
\* the store a request's parameter names, if it has one
ParamStores == {NilRetriever, 1, 3, 9}
\* the variadic argument lists of Website, Group and Store
ArgLists == {<<>>} \cup {<<r>> : r \in Retrievers} \cup {<<1, 2>>, <<9, 1>>}

StoreData(id) == CHOOSE s \in mgrStores : s.StoreID = id
GroupData(id) == CHOOSE g \in mgrGroups : g.GroupID = id

\* Storager.Store, Group, Website: the entity or a not-found error
storageStore(r) ==
    IF \E s \in mgrStores : s.StoreID = r THEN [v |-> r, err |-> "nil"]
    ELSE [v |-> NoStore, err |-> ErrStoreNotFound]
storageGroup(r) ==
    IF \E g \in mgrGroups : g.GroupID = r THEN [v |-> r, err |-> "nil"]
    ELSE [v |-> NoStore, err |-> ErrGroupNotFound]
storageWebsite(r) ==
    IF \E w \in mgrWebsites : w.WebsiteID = r THEN [v |-> r, err |-> "nil"]
    ELSE [v |-> NoStore, err |-> ErrWebsiteNotFound]

\* Group.DefaultStore and Website.DefaultStore
groupDefaultStore(g) ==
    IF \E s \in mgrStores : s.StoreID = GroupData(g).DefaultStoreID /\ s.GroupID = g
    THEN [v |-> GroupData(g).DefaultStoreID, err |-> "nil"]
    ELSE [v |-> NoStore, err |-> ErrGroupDefaultStoreNotFound]
websiteDefaultStore(w) ==
    groupDefaultStore((CHOOSE x \in mgrWebsites : x.WebsiteID = w).DefaultGroupID)

\* notRetriever(r...)
notRetriever(rs) ==
    \/ Len(rs) = 0
    \/ Len(rs) = 1 /\ rs[1] = NilRetriever
    \/ Len(rs) > 1

\* the cached entity under key, or the storage's answer put into the map
Cached(map, key, fetched) ==
    IF key \in DOMAIN map /\ map[key] # NoStore
    THEN [v |-> map[key], err |-> "nil", map |-> map]
    ELSE [v |-> fetched.v, err |-> fetched.err, map |-> MapSet(map, key, fetched.v)]

\* Manager.Store(r...)
managerStore(app, maps, rs) ==
    IF notRetriever(rs)
    THEN IF app = NoStore THEN [v |-> NoStore, err |-> ErrAppStoreNotSet, maps |-> maps]
         ELSE [v |-> app, err |-> "nil", maps |-> maps]
    ELSE LET c == Cached(maps.store, rs[1], storageStore(rs[1]))
         IN  [v |-> c.v, err |-> c.err, maps |-> [maps EXCEPT !.store = c.map]]

\* Manager.Group(r...)
managerGroup(app, maps, rs) ==
    IF notRetriever(rs)
    THEN IF app = NoStore THEN [v |-> NoStore, err |-> ErrAppStoreNotSet, maps |-> maps]
         ELSE [v |-> StoreData(app).GroupID, err |-> "nil", maps |-> maps]
    ELSE LET c == Cached(maps.group, rs[1], storageGroup(rs[1]))
         IN  [v |-> c.v, err |-> c.err, maps |-> [maps EXCEPT !.group = c.map]]

\* Manager.Website(r...)
managerWebsite(app, maps, rs) ==
    IF notRetriever(rs)
    THEN IF app = NoStore THEN [v |-> NoStore, err |-> ErrAppStoreNotSet, maps |-> maps]
         ELSE [v |-> StoreData(app).WebsiteID, err |-> "nil", maps |-> maps]
    ELSE LET c == Cached(maps.website, rs[1], storageWebsite(rs[1]))
         IN  [v |-> c.v, err |-> c.err, maps |-> [maps EXCEPT !.website = c.map]]

managerInitNoGuard(app, maps, r, scp) ==
    CASE scp = Store ->
           LET s == managerStore(app, maps, <<r>>)
           IN  [app |-> s.v, err |-> s.err, maps |-> s.maps]
      [] OTHER -> [app |-> NoStore, err |-> ErrUnsupportedScopeID, maps |-> maps]

\* Manager.Init(scopeCode, scopeType)
managerInit(app, maps, r, scp) ==
    IF app # NoStore THEN [app |-> app, err |-> ErrAppStoreSet, maps |-> maps]
    ELSE CASE scp = Store ->
                LET s == managerStore(app, maps, <<r>>)
                IN  [app |-> s.v, err |-> s.err, maps |-> s.maps]
           [] scp = Group ->
                LET g == managerGroup(app, maps, <<r>>)
                    d == groupDefaultStore(g.v)
                IN  IF g.err # "nil" THEN [app |-> app, err |-> g.err, maps |-> g.maps]
                    ELSE [app |-> d.v, err |-> d.err, maps |-> g.maps]
           [] scp = Website ->
                LET w == managerWebsite(app, maps, <<r>>)
                    d == websiteDefaultStore(w.v)
                IN  IF w.err # "nil" THEN [app |-> app, err |-> w.err, maps |-> w.maps]
                    ELSE [app |-> d.v, err |-> d.err, maps |-> w.maps]
           [] OTHER -> [app |-> app, err |-> ErrUnsupportedScopeID, maps |-> maps]

\* Manager.activeStore(r)
activeStore(r) ==
    LET s == storageStore(r)
    IN  IF s.err # "nil" THEN s
        ELSE IF StoreData(s.v).IsActive THEN s
        ELSE [v |-> NoStore, err |-> ErrStoreNotActive]

GetRequestStoreAllowAll(app, r, scp) ==
    IF app = NoStore THEN [v |-> NoStore, err |-> ErrAppStoreNotSet]
    ELSE activeStore(r)

\* Manager.GetRequestStore(r, scopeType)
GetRequestStore(app, r, scp) ==
    IF app = NoStore THEN [v |-> NoStore, err |-> ErrAppStoreNotSet]
    ELSE LET a == activeStore(r)
             allowStoreChange ==
                 CASE scp = Store -> TRUE
                   [] scp = Group -> StoreData(a.v).GroupID = StoreData(app).GroupID
                   [] scp = Website -> StoreData(a.v).WebsiteID = StoreData(app).WebsiteID
                   [] OTHER -> FALSE
         IN  IF a.v = NoStore \/ a.err # "nil" THEN [v |-> NoStore, err |-> a.err]
             ELSE IF allowStoreChange THEN a
             ELSE [v |-> NoStore, err |-> ErrStoreChangeNotAllowed]

\* Manager.InitByRequest with the store of the cookie and of the request
\* parameter (NilRetriever when there is none)
InitByRequest(app, cookie, param, scp) ==
    IF app = NoStore THEN [v |-> NoStore, err |-> ErrAppStoreNotSet]
    ELSE LET fromCookie == IF cookie # NilRetriever
                           THEN GetRequestStore(app, cookie, scp).v ELSE NoStore
             p == GetRequestStore(app, param, scp)
         IN  IF param = NilRetriever THEN [v |-> fromCookie, err |-> "nil"]
             ELSE IF p.err # "nil" THEN [v |-> NoStore, err |-> p.err]
             ELSE IF websiteDefaultStore(StoreData(p.v).WebsiteID).err # "nil"
             THEN [v |-> NoStore, err |-> websiteDefaultStore(StoreData(p.v).WebsiteID).err]
             ELSE [v |-> p.v, err |-> "nil"]

mgrFrame == <<op, resolverVars, hashVars, cacheVars, svcVars, storeVars, rlVars, extraVars>>

MgrCall(name, rs, scp, cookie, v, err) ==
    /\ mgrCalls < MaxMgrCalls
    /\ mgrCalls' = mgrCalls + 1
    /\ mgrRet' = [op |-> name, rs |-> rs, scp |-> scp, cookie |-> cookie,
                  v |-> v, err |-> err, appBefore |-> appStore, initBefore |-> initOK]

\* sm.Init(r, scp)
MgrInit(r, scp) ==
    LET i == managerInit(appStore, mgrMaps, r, scp)
    IN  /\ MgrCall("Init", <<r>>, scp, NilRetriever, i.app, i.err)
        /\ appStore' = i.app
        /\ mgrMaps' = i.maps
        /\ initOK' = (initOK \/ i.err = "nil")
        /\ UNCHANGED mgrFrame

\* sm.GetRequestStore(r, scp)
MgrGetRequestStore(r, scp) ==
    LET g == GetRequestStore(appStore, r, scp)
    IN  /\ MgrCall("GetRequestStore", <<r>>, scp, NilRetriever, g.v, g.err)
        /\ UNCHANGED <<appStore, mgrMaps, initOK, mgrFrame>>

\* sm.InitByRequest(res, req, scp)
MgrInitByRequest(cookie, param, scp) ==
    LET g == InitByRequest(appStore, cookie, param, scp)
    IN  /\ MgrCall("InitByRequest", <<param>>, scp, cookie, g.v, g.err)
        /\ UNCHANGED <<appStore, mgrMaps, initOK, mgrFrame>>

\* sm.Website(rs...)
MgrWebsite(rs) ==
    LET w == managerWebsite(appStore, mgrMaps, rs)
    IN  /\ MgrCall("Website", rs, 0, NilRetriever, w.v, w.err)
        /\ mgrMaps' = w.maps
        /\ UNCHANGED <<appStore, initOK, mgrFrame>>

\* sm.Group(rs...)
MgrGroup(rs) ==
    LET g == managerGroup(appStore, mgrMaps, rs)
    IN  /\ MgrCall("Group", rs, 0, NilRetriever, g.v, g.err)
        /\ mgrMaps' = g.maps
        /\ UNCHANGED <<appStore, initOK, mgrFrame>>

\* sm.Store(rs...)
MgrStore(rs) ==
    LET s == managerStore(appStore, mgrMaps, rs)
    IN  /\ MgrCall("Store", rs, 0, NilRetriever, s.v, s.err)
        /\ mgrMaps' = s.maps
        /\ UNCHANGED <<appStore, initOK, mgrFrame>>

\* sm.ClearCache(clearAll)
MgrClearCache(clearAll) ==
    /\ MgrCall("ClearCache", <<>>, 0, NilRetriever, NoStore, "nil")
    /\ mgrMaps' = [website |-> <<>>, group |-> <<>>, store |-> <<>>]
    /\ appStore' = IF clearAll THEN NoStore ELSE appStore
    /\ UNCHANGED <<initOK, mgrFrame>>

InitManager == Init

NextManager ==
    \/ \E r \in Retrievers, scp \in Scopes : MgrInit(r, scp)
    \/ \E r \in RetrieverIDs, scp \in Scopes : MgrGetRequestStore(r, scp)
    \/ \E cookie \in CookieStores, param \in ParamStores, scp \in Scopes :
          MgrInitByRequest(cookie, param, scp)
    \/ \E rs \in ArgLists : MgrWebsite(rs)
    \/ \E rs \in ArgLists : MgrGroup(rs)
    \/ \E rs \in ArgLists : MgrStore(rs)
    \/ \E clearAll \in BOOLEAN : MgrClearCache(clearAll)

SpecManager == InitManager /\ [][NextManager]_vars


-----------------------------------------------------------------------------
(* Claims about store.Manager.                                                *)

Requested == mgrRet.rs[1]
RequestedFound == \E s \in mgrStores : s.StoreID = Requested
RequestedActive == RequestedFound /\ StoreData(Requested).IsActive
ChangeAllowed ==
    /\ RequestedActive
    /\ \/ mgrRet.scp = Store
       \/ /\ mgrRet.scp = Group
          /\ mgrRet.appBefore # NoStore
          /\ StoreData(Requested).GroupID = StoreData(mgrRet.appBefore).GroupID
       \/ /\ mgrRet.scp = Website
          /\ mgrRet.appBefore # NoStore
          /\ StoreData(Requested).WebsiteID = StoreData(mgrRet.appBefore).WebsiteID

\* C29 as stated: GetRequestStore returns the requested store only if it is
\* active and the scope type is Store, or Group with the appStore's GroupID,
\* or Website with the appStore's WebsiteID; in every other case it returns
\* no store and ErrStoreChangeNotAllowed, and ErrStoreNotActive for an
\* inactive store.
C29_AsClaimed ==
    mgrRet.op = "GetRequestStore" =>
        /\ mgrRet.v # NoStore => (mgrRet.v = Requested /\ ChangeAllowed)
        /\ ~ChangeAllowed =>
              /\ mgrRet.v = NoStore
              /\ mgrRet.err = IF RequestedFound /\ ~RequestedActive
                              THEN ErrStoreNotActive ELSE ErrStoreChangeNotAllowed

\* C29 amended: with no appStore GetRequestStore returns ErrAppStoreNotSet;
\* a store the storage does not have yields the storage's error; an inactive
\* store yields ErrStoreNotActive; an active store is returned only if the
\* scope type is Store, or Group with the appStore's GroupID, or Website
\* with the appStore's WebsiteID, and in every other case of an active store
\* no store and ErrStoreChangeNotAllowed are returned.
C29_GetRequestStore ==
    mgrRet.op = "GetRequestStore" =>
        /\ mgrRet.v # NoStore => (mgrRet.v = Requested /\ ChangeAllowed)
        /\ mgrRet.err # "nil" => mgrRet.v = NoStore
        /\ mgrRet.err =
              IF mgrRet.appBefore = NoStore THEN ErrAppStoreNotSet
              ELSE IF ~RequestedFound THEN ErrStoreNotFound
              ELSE IF ~RequestedActive THEN ErrStoreNotActive
              ELSE IF ChangeAllowed THEN "nil"
              ELSE ErrStoreChangeNotAllowed

\* GetRequestStore on an initialised manager for a store of another website,
\* with the Website scope type
C29_Witness ==
    /\ mgrRet.op = "GetRequestStore"
    /\ mgrRet.appBefore # NoStore
    /\ mgrRet.scp = Website
    /\ RequestedActive
    /\ StoreData(Requested).WebsiteID # StoreData(mgrRet.appBefore).WebsiteID
    /\ mgrRet.err = ErrStoreChangeNotAllowed

\* C30: Website, Group and Store return an error when more than one
\* Retriever is passed; with no argument they return the website, group or
\* store of appStore, or ErrAppStoreNotSet when appStore is unset.
C30_ArgumentCount ==
    mgrRet.op \in {"Website", "Group", "Store"} =>
        /\ Len(mgrRet.rs) > 1 => mgrRet.err # "nil"
        /\ Len(mgrRet.rs) = 0 =>
              IF mgrRet.appBefore = NoStore
              THEN mgrRet.v = NoStore /\ mgrRet.err = ErrAppStoreNotSet
              ELSE /\ mgrRet.err = "nil"
                   /\ mgrRet.v = CASE mgrRet.op = "Store" -> mgrRet.appBefore
                                   [] mgrRet.op = "Group" ->
                                        StoreData(mgrRet.appBefore).GroupID
                                   [] OTHER -> StoreData(mgrRet.appBefore).WebsiteID


-----------------------------------------------------------------------------
(* geoip: the middleware WithIsCountryAllowedByIP serving one request.        *)

\* what the lookup of the request's IP gives: no remote address, a failing
\* GeoIP lookup, or the ISO code of the country
GeoLookups == {"noip", "lookupErr", "DE", "US"}
GeoAllowedLists == {<<>>, <<"DE">>, <<"DE", "AT">>}
\* IsAllowedFunc: unset, the default of defaultScopedConfig, or one of the
\* caller that rejects or admits every country
GeoFuncs == {"nil", "default", "denyAll", "allowAll"}
GeoConfigs ==
    [lastErr : BOOLEAN, scopeHash : {0, DefaultHash}, IsAllowedFunc : GeoFuncs,
     alternativeHandler : BOOLEAN, allowedCountries : GeoAllowedLists]
GeoRequests == [store : BOOLEAN, cfg : GeoConfigs, country : GeoLookups]

\* scopedConfig.isValid
isValid(sc) ==
    /\ ~sc.lastErr
    /\ ~(sc.scopeHash = 0 \/ sc.IsAllowedFunc = "nil" \/ ~sc.alternativeHandler)

\* IsAllowedFunc(s, c, allowedCountries): TRUE when it returns nil
IsAllowedFunc(f, c, allowed) ==
    CASE f = "default" -> \E i \in 1..Len(allowed) : allowed[i] = c
      [] f = "allowAll" -> TRUE
      [] OTHER -> FALSE

checkAllowAlwaysAsks(sc, c) ==
    [called |-> TRUE, ok |-> IsAllowedFunc(sc.IsAllowedFunc, c, sc.allowedCountries)]

\* scopedConfig.checkAllow: whether IsAllowedFunc was called, and the verdict
checkAllow(sc, c) ==
    IF Len(sc.allowedCountries) = 0 THEN [called |-> FALSE, ok |-> TRUE]
    ELSE [called |-> TRUE, ok |-> IsAllowedFunc(sc.IsAllowedFunc, c, sc.allowedCountries)]

\* Service.CountryByIP: TRUE when a country was found
CountryByIP(ip) == ip \notin {"noip", "lookupErr"}

geoFrame == <<op, resolverVars, hashVars, cacheVars, svcVars, storeVars, rlVars, mgrVars, hpVars,
              viewVars, oeVars>>

\* a request reaches the handler
GeoServe(req) ==
    /\ geoPc = "idle"
    /\ geoReq' = req
    /\ geoPc' = "store"
    /\ UNCHANGED <<geoTrace, geoCtx, geoFrame>>

\* store.FromContextRequestedStore
GeoStore ==
    /\ geoPc = "store"
    /\ IF geoReq.store
       THEN geoPc' = "config" /\ UNCHANGED <<geoTrace, geoCtx>>
       ELSE /\ geoPc' = "done"
            /\ geoTrace' = Append(geoTrace, "next")
            /\ geoCtx' = "FromContextProvider"
    /\ UNCHANGED <<geoReq, geoFrame>>

\* configByScopedGetter and scpCfg.isValid
GeoConfig ==
    /\ geoPc = "config"
    /\ IF isValid(geoReq.cfg)
       THEN /\ geoPc' = "lookup"
            /\ geoTrace' = Append(geoTrace, "isValid")
            /\ UNCHANGED geoCtx
       ELSE /\ geoPc' = "done"
            /\ geoTrace' = geoTrace \o <<"isValid", "next">>
            /\ geoCtx' = "ConfigByScopedGetter"
    /\ UNCHANGED <<geoReq, geoFrame>>

\* newContextCountryByIP
GeoLookup ==
    /\ geoPc = "lookup"
    /\ IF CountryByIP(geoReq.country)
       THEN /\ geoPc' = "check"
            /\ geoTrace' = Append(geoTrace, "CountryByIP")
            /\ UNCHANGED geoCtx
       ELSE /\ geoPc' = "done"
            /\ geoTrace' = geoTrace \o <<"CountryByIP", "next">>
            /\ geoCtx' = "newContextCountryByIP"
    /\ UNCHANGED <<geoReq, geoFrame>>

\* scpCfg.checkAllow, then the alternative or the next handler
GeoCheck ==
    LET a == checkAllow(geoReq.cfg, geoReq.country)
        asked == IF a.called THEN <<"IsAllowedFunc">> ELSE <<>>
    IN  /\ geoPc = "check"
        /\ geoPc' = "done"
        /\ IF a.ok
           THEN /\ geoTrace' = geoTrace \o asked \o <<"next">>
                /\ UNCHANGED geoCtx
           ELSE /\ geoTrace' = geoTrace \o asked \o <<"alternative">>
                /\ geoCtx' = "CheckAllow"
        /\ UNCHANGED <<geoReq, geoFrame>>

InitGeo == Init

NextGeo ==
    \/ \E req \in GeoRequests : GeoServe(req)
    \/ GeoStore
    \/ GeoConfig
    \/ GeoLookup
    \/ GeoCheck

SpecGeo == InitGeo /\ [][NextGeo]_vars

\* the calls of kind e made for the request
GeoCalls(e) == {i \in 1..Len(geoTrace) : geoTrace[i] = e}

\* C31: a served request has had exactly one handler called, once. It is
\* the alternative handler exactly when the requested store was found, its
\* scoped configuration is valid, the country was resolved, the list of
\* allowed countries is not empty and IsAllowedFunc rejected the country;
\* otherwise it is the next handler, with an error in the context when the
\* store, the configuration or the lookup failed. An empty list admits the
\* country without a call of IsAllowedFunc, and the validity check comes
\* before the lookup.
C31_OneHandler ==
    /\ Cardinality(GeoCalls("next") \cup GeoCalls("alternative")) <= 1
    /\ \A i \in GeoCalls("CountryByIP") : \E j \in GeoCalls("isValid") : j < i
    /\ geoPc = "done" =>
          LET rejected ==
                  /\ geoReq.store
                  /\ isValid(geoReq.cfg)
                  /\ CountryByIP(geoReq.country)
                  /\ Len(geoReq.cfg.allowedCountries) > 0
                  /\ ~IsAllowedFunc(geoReq.cfg.IsAllowedFunc, geoReq.country,
                                    geoReq.cfg.allowedCountries)
              failed ==
                  \/ ~geoReq.store
                  \/ ~isValid(geoReq.cfg)
                  \/ ~CountryByIP(geoReq.country)
          IN  /\ Cardinality(GeoCalls("next") \cup GeoCalls("alternative")) = 1
              /\ GeoCalls("alternative") # {} <=> rejected
              /\ GeoCalls("next") # {} <=> ~rejected
              /\ (GeoCalls("next") # {} /\ failed) => geoCtx # "none"
              /\ (GeoCalls("next") # {} /\ ~failed) => geoCtx = "none"
              /\ Len(geoReq.cfg.allowedCountries) = 0 => GeoCalls("IsAllowedFunc") = {}
              /\ (geoReq.store /\ ~isValid(geoReq.cfg)) => GeoCalls("CountryByIP") = {}

\* a request from a resolved country that the default IsAllowedFunc rejects
\* has been handed to the alternative handler
C31_Witness ==
    /\ geoPc = "done"
    /\ geoReq.cfg.IsAllowedFunc = "default"
    /\ geoReq.country = "US"
    /\ geoTrace = <<"isValid", "CountryByIP", "IsAllowedFunc", "alternative">>


-----------------------------------------------------------------------------
(* hashpool: a Tank of hashes over a sync.Pool. A hash is its running state; *)
(* the model's hash is FNV-1a narrowed to eight bits.                         *)

MaxSums == 2
HashData == {<<>>, <<1>>, <<2>>, <<1, 2>>, <<2, 1>>}

\* hash.Hash.Reset of the narrowed FNV-1a: the offset basis
hashReset(h) == 197

\* hash.Hash.Write: for every byte, xor it in and multiply by the prime
RECURSIVE hashWrite(_, _)
hashWrite(h, data) ==
    IF data = <<>> THEN h
    ELSE hashWrite((BitXor(h, Head(data)) * 19) % 256, Tail(data))

\* hash.Hash.Sum(nil): the digest of the running state, which it leaves alone
hashSum(h) == h

\* the sum a hash fresh from its constructor computes over data
FreshSum(data) == hashSum(hashWrite(hashReset(NoHash), data))

\* the New function of the sync.Pool
PoolNew == hashReset(NoHash)

TankPutNoReset(h) == h

\* Tank.Put: the hash as it enters the pool
TankPut(h) == hashReset(h)

RemoveAt(s, i) == SubSeq(s, 1, i - 1) \o SubSeq(s, i + 1, Len(s))

hpFrame == <<op, resolverVars, hashVars, cacheVars, svcVars, storeVars, rlVars, mgrVars, geoVars,
             viewVars, oeVars>>

\* the calls made so far by the goroutines 1..n
RECURSIVE TankCalls(_)
TankCalls(n) == IF n = 0 THEN 0 ELSE hpLocal[n].calls + TankCalls(n - 1)

\* goroutine g calls Tank.Sum(data, nil), or uses Get and Put on its own
TankCall(g, kind, data) ==
    /\ hpLocal[g].pc = "idle"
    /\ TankCalls(NumGoroutines) < MaxSums
    /\ hpLocal' = [hpLocal EXCEPT ![g] =
           [pc |-> "Get", kind |-> kind, data |-> data, h |-> NoHash, ret |-> NoHash,
            pooled |-> FALSE, calls |-> @.calls + 1]]
    /\ UNCHANGED <<hpPool, hpFrame>>

\* Tank.Get: sync.Pool.Get hands out any pooled hash
TankGetPooled(g) ==
    /\ hpLocal[g].pc = "Get"
    /\ \E i \in 1..Len(hpPool) :
          /\ hpLocal' = [hpLocal EXCEPT ![g].pc = "Write", ![g].h = hpPool[i],
                                        ![g].pooled = TRUE]
          /\ hpPool' = RemoveAt(hpPool, i)
    /\ UNCHANGED hpFrame

\* Tank.Get: sync.Pool.Get finds nothing for this goroutine and calls New
TankGetNew(g) ==
    /\ hpLocal[g].pc = "Get"
    /\ hpLocal' = [hpLocal EXCEPT ![g].pc = "Write", ![g].h = PoolNew]
    /\ UNCHANGED <<hpPool, hpFrame>>

\* h.Write(data)
TankWrite(g) ==
    /\ hpLocal[g].pc = "Write"
    /\ hpLocal' = [hpLocal EXCEPT
           ![g].pc = IF hpLocal[g].kind = "Sum" THEN "Sum" ELSE "Put",
           ![g].h = hashWrite(@, hpLocal[g].data)]
    /\ UNCHANGED <<hpPool, hpFrame>>

\* h.Sum(appendTo)
TankSum(g) ==
    /\ hpLocal[g].pc = "Sum"
    /\ hpLocal' = [hpLocal EXCEPT ![g].pc = "Put", ![g].ret = hashSum(hpLocal[g].h)]
    /\ UNCHANGED <<hpPool, hpFrame>>

\* the deferred Tank.Put, and the return
TankReturn(g) ==
    /\ hpLocal[g].pc = "Put"
    /\ hpPool' = Append(hpPool, TankPut(hpLocal[g].h))
    /\ hpLocal' = [hpLocal EXCEPT ![g].pc = "idle", ![g].h = NoHash]
    /\ UNCHANGED hpFrame

\* the garbage collector empties the sync.Pool
PoolCollect ==
    /\ hpPool # <<>>
    /\ hpPool' = <<>>
    /\ UNCHANGED <<hpLocal, hpFrame>>

InitTank == Init

NextTank ==
    \/ \E g \in Goroutines, kind \in {"Sum", "GetPut"}, data \in HashData : TankCall(g, kind, data)
    \/ \E g \in Goroutines : TankGetPooled(g)
    \/ \E g \in Goroutines : TankGetNew(g)
    \/ \E g \in Goroutines : TankWrite(g)
    \/ \E g \in Goroutines : TankSum(g)
    \/ \E g \in Goroutines : TankReturn(g)
    \/ PoolCollect

SpecTank == InitTank /\ [][NextTank]_vars

\* C32: every hash lying in the pool and every hash just handed out is in
\* its reset state, and a Sum that has computed its result has computed the
\* sum of a fresh hash over its data, whatever the goroutines have hashed
\* through the pool before and however their calls interleave.
C32_SumOfFresh ==
    /\ \A i \in 1..Len(hpPool) : hpPool[i] = hashReset(NoHash)
    /\ \A g \in Goroutines :
          /\ hpLocal[g].pc = "Write" => hpLocal[g].h = hashReset(NoHash)
          /\ hpLocal[g].ret # NoHash => hpLocal[g].ret = FreshSum(hpLocal[g].data)

\* a goroutine has returned from Sum, over <<1, 2>>, with the sum of a fresh
\* hash, computed by a hash from the pool that another goroutine had
\* written <<2, 1>> through
C32_Witness ==
    \E g \in Goroutines, o \in Goroutines :
        /\ g # o
        /\ hpLocal[o].kind = "GetPut" /\ hpLocal[o].pc = "idle"
        /\ hpLocal[o].data = <<2, 1>> /\ ~hpLocal[o].pooled
        /\ hpLocal[g].kind = "Sum" /\ hpLocal[g].pc = "idle"
        /\ hpLocal[g].pooled
        /\ hpLocal[g].data = <<1, 2>>
        /\ hpLocal[g].ret = FreshSum(<<1, 2>>)
        /\ Len(hpPool) = 1


\* C33: no loader goroutine sends on errc after the caller of
\* factory.LoadFromDB has returned and closed it.
C33_NoSendAfterClose ==
    \A l \in Loaders : loaders[l].pc # "panic"


-----------------------------------------------------------------------------
(* store.Service at the level of its RWMutex: the lookups Store, Group,      *)
(* Website and DefaultStoreView of reader goroutines against one goroutine   *)
(* in ClearCache or LoadFromDB. A Lock that is waiting keeps new RLocks out,  *)
(* as sync.RWMutex does.                                                      *)

MaxViewCalls == 2
Lookups == {"Store", "Group", "Website"}

\* the cache a lookup reads
CacheOf(svc, kind) ==
    CASE kind = "Group" -> svc.cacheGroup
      [] kind = "Website" -> svc.cacheWebsite
      [] OTHER -> svc.cacheStore

\* sync.RWMutex: RLock proceeds unless a writer holds or awaits the lock
CanRLock(m) == m.writer = "free"

\* the deferred RUnlocks of a returning lookup
RUnlockAll(m, held) == [m EXCEPT !.readers = @ - held]

viewFrame == <<op, resolverVars, hashVars, cacheVars, svcVars, storeState, loaders,
               loadMain, storeRet, rlVars, mgrVars, geoVars, hpVars, oeVars>>

\* goroutine g calls Store(id), Group(id), Website(id) or DefaultStoreView()
ViewCall(g, kind, id) ==
    /\ storeState = "yes"
    /\ viewR[g].pc = "idle"
    /\ viewR[g].calls < MaxViewCalls
    /\ viewR' = [viewR EXCEPT ![g] =
           [pc |-> IF kind = "DefaultStoreView" THEN "check" ELSE "RLock",
            kind |-> kind, id |-> IF kind = "DefaultStoreView" THEN 0 ELSE id,
            held |-> 0, err |-> "none", ent |-> {},
            during |-> FALSE, calls |-> @.calls + 1]]
    /\ UNCHANGED <<storeSvc, backend, svcBefore, storeMu, viewW, viewFrame>>

\* DefaultStoreView: if s.defaultStoreID >= 0, read without the lock
ViewCheck(g) ==
    /\ viewR[g].pc = "check"
    /\ viewR' = [viewR EXCEPT ![g].pc =
           IF storeSvc.defaultStoreID >= 0 THEN "firstRLock" ELSE "backend"]
    /\ UNCHANGED <<storeSvc, backend, svcBefore, storeMu, viewW, viewFrame>>

\* DefaultStoreView: s.mu.RLock(), its RUnlock deferred to the return
ViewFirstRLock(g) ==
    /\ viewR[g].pc = "firstRLock"
    /\ CanRLock(storeMu)
    /\ storeMu' = [storeMu EXCEPT !.readers = @ + 1]
    /\ viewR' = [viewR EXCEPT ![g].pc = "cached", ![g].held = @ + 1]
    /\ UNCHANGED <<storeSvc, backend, svcBefore, viewW, viewFrame>>

\* DefaultStoreView: the store of defaultStoreID, if it is cached
ViewCached(g) ==
    /\ viewR[g].pc = "cached"
    /\ IF storeSvc.defaultStoreID \in DOMAIN storeSvc.cacheStore
       THEN /\ viewR' = [viewR EXCEPT ![g].pc = "idle", ![g].held = 0,
                   ![g].err = "nil",
                   ![g].ent = {storeSvc.cacheStore[storeSvc.defaultStoreID]}]
            /\ storeMu' = RUnlockAll(storeMu, viewR[g].held)
       ELSE /\ viewR' = [viewR EXCEPT ![g].pc = "backend"]
            /\ UNCHANGED storeMu
    /\ UNCHANGED <<storeSvc, backend, svcBefore, viewW, viewFrame>>

\* DefaultStoreView: s.backend.DefaultStoreID() and the atomic store of it
ViewBackend(g) ==
    /\ viewR[g].pc = "backend"
    /\ LET r == factoryDefaultStoreID(backend)
       IN  IF r.err # "nil"
           THEN /\ viewR' = [viewR EXCEPT ![g].pc = "idle", ![g].held = 0,
                                          ![g].err = r.err]
                /\ storeMu' = RUnlockAll(storeMu, viewR[g].held)
                /\ UNCHANGED storeSvc
           ELSE /\ viewR' = [viewR EXCEPT ![g].pc = "RLock", ![g].id = r.id]
                /\ storeSvc' = [storeSvc EXCEPT !.defaultStoreID = r.id]
                /\ UNCHANGED storeMu
    /\ UNCHANGED <<backend, svcBefore, viewW, viewFrame>>

\* Store, Group, Website: s.mu.RLock()
ViewRLock(g) ==
    /\ viewR[g].pc = "RLock"
    /\ CanRLock(storeMu)
    /\ storeMu' = [storeMu EXCEPT !.readers = @ + 1]
    /\ viewR' = [viewR EXCEPT ![g].pc = "lookup", ![g].held = @ + 1]
    /\ UNCHANGED <<storeSvc, backend, svcBefore, viewW, viewFrame>>

\* Store, Group, Website: the cached entity or NotFound, and the return
ViewLookup(g) ==
    /\ viewR[g].pc = "lookup"
    /\ LET cache == CacheOf(storeSvc, viewR[g].kind)
           hit == viewR[g].id \in DOMAIN cache
       IN  viewR' = [viewR EXCEPT ![g].pc = "idle", ![g].held = 0,
                  ![g].err = IF hit THEN "nil" ELSE "NotFound",
                  ![g].ent = IF hit THEN {cache[viewR[g].id]} ELSE {},
                  ![g].during = viewW.call = "LoadFromDB" /\ viewW.pc # "done"]
    /\ storeMu' = RUnlockAll(storeMu, viewR[g].held)
    /\ UNCHANGED <<storeSvc, backend, svcBefore, viewW, viewFrame>>

\* a goroutine calls Service.ClearCache
ViewClearCacheCall ==
    /\ storeState = "yes"
    /\ viewW.pc = "idle"
    /\ viewW' = [pc |-> "Lock", call |-> "ClearCache", ret |-> "none"]
    /\ UNCHANGED <<storeSvc, backend, svcBefore, storeMu, viewR, viewFrame>>

\* a goroutine calls Service.LoadFromDB and the backend loads db
ViewLoadFromDB(db) ==
    /\ storeState = "yes"
    /\ viewW.pc = "idle"
    /\ viewW' = [pc |-> "Lock", call |-> "LoadFromDB", ret |-> "none"]
    /\ backend' = db
    /\ svcBefore' = storeSvc
    /\ UNCHANGED <<storeSvc, storeMu, viewR, viewFrame>>

\* ClearCache, loadFromOptions: s.mu.Lock() is called and waits
ViewLock ==
    /\ viewW.pc \in {"Lock", "Lock2"}
    /\ storeMu.writer = "free"
    /\ storeMu' = [storeMu EXCEPT !.writer = "waiting"]
    /\ viewW' = [viewW EXCEPT !.pc = IF @ = "Lock" THEN "Wait" ELSE "Wait2"]
    /\ UNCHANGED <<storeSvc, backend, svcBefore, viewR, viewFrame>>

\* s.mu.Lock() returns when the last reader has left
ViewLocked ==
    /\ viewW.pc \in {"Wait", "Wait2"}
    /\ storeMu.readers = 0
    /\ storeMu' = [storeMu EXCEPT !.writer = "held"]
    /\ viewW' = [viewW EXCEPT !.pc = IF @ = "Wait" THEN "ClearCache" ELSE "loadFromOptions"]
    /\ UNCHANGED <<storeSvc, backend, svcBefore, viewR, viewFrame>>

\* Service.ClearCache under the lock, and its Unlock
ViewClearCache ==
    /\ viewW.pc = "ClearCache"
    /\ storeSvc' = ClearCache(storeSvc)
    /\ storeMu' = [storeMu EXCEPT !.writer = "free"]
    /\ viewW' = IF viewW.call = "ClearCache"
                THEN [viewW EXCEPT !.pc = "done", !.ret = "nil"]
                ELSE [viewW EXCEPT !.pc = "Lock2"]
    /\ UNCHANGED <<backend, svcBefore, viewR, viewFrame>>

\* Service.loadFromOptions under the lock, its Unlock, and the return of
\* LoadFromDB
ViewLoadFromOptions ==
    /\ viewW.pc = "loadFromOptions"
    /\ LET r == loadFromOptions(storeSvc, backend)
       IN  /\ storeSvc' = [r.svc EXCEPT !.defaultStoreID = storeSvc.defaultStoreID]
           /\ viewW' = [viewW EXCEPT !.pc = "done",
                                     !.ret = IF r.err = "nil" THEN "nil" ELSE "apply"]
    /\ storeMu' = [storeMu EXCEPT !.writer = "free"]
    /\ UNCHANGED <<backend, svcBefore, viewR, viewFrame>>

InitView == Init

NextView ==
    \/ \E db \in Databases : NewService(db)
    \/ \E g \in Goroutines, kind \in Lookups \cup {"DefaultStoreView"}, id \in 1..MaxID :
          ViewCall(g, kind, id)
    \/ \E g \in Goroutines : ViewCheck(g)
    \/ \E g \in Goroutines : ViewFirstRLock(g)
    \/ \E g \in Goroutines : ViewCached(g)
    \/ \E g \in Goroutines : ViewBackend(g)
    \/ \E g \in Goroutines : ViewRLock(g)
    \/ \E g \in Goroutines : ViewLookup(g)
    \/ ViewClearCacheCall
    \/ \E db \in Databases : ViewLoadFromDB(db)
    \/ ViewLock
    \/ ViewLocked
    \/ ViewClearCache
    \/ ViewLoadFromOptions

SpecView == InitView /\ [][NextView]_vars

\* C34: DefaultStoreView is never at an RLock that cannot be granted: it
\* never waits for the read lock behind a waiting writer while itself
\* holding the read lock that writer waits for.
C34_AlwaysReturns ==
    \A g \in Goroutines :
        ~(/\ viewR[g].kind = "DefaultStoreView"
          /\ viewR[g].pc = "RLock"
          /\ viewR[g].held > 0
          /\ storeMu.writer = "waiting")

\* C35: a Store, Group or Website lookup that read the cache while a
\* LoadFromDB was running, which then returned nil, for an id cached both
\* before and after the load, has returned the entity of before or of after.
C35_OldOrNew ==
    \A g \in Goroutines :
        LET old == CacheOf(svcBefore, viewR[g].kind)
            new == CacheOf(storeSvc, viewR[g].kind)
        IN  (/\ viewR[g].kind \in Lookups
             /\ viewR[g].pc = "idle"
             /\ viewR[g].during
             /\ viewW.call = "LoadFromDB" /\ viewW.pc = "done" /\ viewW.ret = "nil"
             /\ viewR[g].id \in DOMAIN old
             /\ viewR[g].id \in DOMAIN new)
            => /\ viewR[g].err = "nil"
               /\ viewR[g].ent \subseteq {old[viewR[g].id], new[viewR[g].id]}


\* C36: the write-back of getScopedConfig stores the entry the map holds at
\* that moment, changed in nothing but its logger: what an option has stored
\* under the hash since the copy was read is not replaced by the older copy.
C36_NoStaleWriteBack ==
    [][\A g \in Goroutines :
          (local[g].pc = "getW" /\ local'[g].pc = "getX") =>
              /\ local[g].h \in DOMAIN scopeCache
              /\ [scopeCache'[local[g].h] EXCEPT !.log = TRUE]
                    = [scopeCache[local[g].h] EXCEPT !.log = TRUE]]_vars


-----------------------------------------------------------------------------
(* ctxcors.Service.optionError with the identity of the error: Options calls *)
(* whose option reports an error through AddError. AddError takes no lock,   *)
(* so its test and its assignment are two steps.                             *)

OptionErrors == {"e1", "e2"}

oeFrame == <<op, resolverVars, hashVars, cacheVars, svcVars, storeVars, rlVars, mgrVars,
             geoVars, hpVars, viewVars>>

\* Options(opt) is called, directly or by configByScopedGetter with the
\* options of the scope option function; opt reports err, or nothing
OptionsStart(g, err) ==
    /\ oeLocal[g].pc = "idle"
    /\ oeLocal[g].calls < MaxCalls
    /\ oeLocal' = [oeLocal EXCEPT ![g] =
           [pc |-> IF err = "nil" THEN "return" ELSE "AddError", err |-> err,
            before |-> oeFirst, ret |-> "none", calls |-> @.calls + 1]]
    /\ UNCHANGED <<oeValue, oeFirst, oeFrame>>

\* AddError: if s.optionError != nil, the error is discarded
AddErrorTest(g) ==
    /\ oeLocal[g].pc = "AddError"
    /\ oeLocal' = [oeLocal EXCEPT ![g].pc = IF oeValue # "nil" THEN "return" ELSE "assign"]
    /\ UNCHANGED <<oeValue, oeFirst, oeFrame>>

\* AddError: s.optionError = err
AddErrorAssign(g) ==
    /\ oeLocal[g].pc = "assign"
    /\ oeValue' = oeLocal[g].err
    /\ oeFirst' = IF oeFirst = "nil" THEN oeLocal[g].err ELSE oeFirst
    /\ oeLocal' = [oeLocal EXCEPT ![g].pc = "return"]
    /\ UNCHANGED oeFrame

\* Options: return s.optionError if it is set
OptionsReturn(g) ==
    /\ oeLocal[g].pc = "return"
    /\ oeLocal' = [oeLocal EXCEPT ![g].pc = "idle", ![g].ret = oeValue]
    /\ UNCHANGED <<oeValue, oeFirst, oeFrame>>

InitOptionError == Init

NextOptionError ==
    \/ \E g \in Goroutines, err \in OptionErrors \cup {"nil"} : OptionsStart(g, err)
    \/ \E g \in Goroutines : AddErrorTest(g)
    \/ \E g \in Goroutines : AddErrorAssign(g)
    \/ \E g \in Goroutines : OptionsReturn(g)

SpecOptionError == InitOptionError /\ [][NextOptionError]_vars

\* C37: optionError, once set, is never cleared and keeps the first error:
\* an Options call made after an error was recorded returns that first
\* error, whatever its own option reports.
C37_FirstErrorKept ==
    /\ oeFirst # "nil" => oeValue = oeFirst
    /\ \A g \in Goroutines :
          (oeLocal[g].ret # "none" /\ oeLocal[g].before # "nil")
              => oeLocal[g].ret = oeLocal[g].before


\* the entry of the lookup's hash is cached and not valid
InvalidEntry(g) ==
    /\ local[g].h \in DOMAIN scopeCache
    /\ ~IsValid(scopeCache[local[g].h])

\* the default scope is served by the fallback only for a hash without an
\* entry, and ConfigNotFound is returned only for a hash without an entry
\* while the default entry is not valid
FallbackOnlyWhenAbsent(g) ==
    /\ (local[g].h \in DOMAIN scopeCache /\ local[g].err = ErrNil /\ "map" \in local[g].trace)
          => [local[g].ret EXCEPT !.log = TRUE] = [scopeCache[local[g].h] EXCEPT !.log = TRUE]
    /\ local[g].err = errConfigNotFound
          => (local[g].h \notin DOMAIN scopeCache /\ ~IsValid(defaultScopeCache))

C39_RestrictDefault ==
    (Got /\ WellFormed) =>
      /\ argS = <<Default>> =>
            /\ CallHashes = <<DefaultHash>>
            /\ ret = [v |-> RootAt(DefaultHash).v, h |-> DefaultHash,
                      err |-> RootAt(DefaultHash).err]
      /\ argS = <<Absent>> =>
            LET t == Traverse(argT, argR, <<>>)
            IN  /\ ret = [v |-> t.v, h |-> t.h, err |-> t.err]
                /\ calls = t.calls

\* a resolver with a store and a website, values stored at both, has
\* answered a call restricted to Default from the Default scope alone
C39_Witness ==
    /\ Got /\ argR = StoredRoute /\ argS = <<Default>>
    /\ ss = [WebsiteID |-> 1, StoreID |-> 1]
    /\ storage[StoreHash] = "val" /\ storage[WebsiteHash] = "val"
    /\ storage[DefaultHash] = "zero"
    /\ CallHashes = <<DefaultHash>>
    /\ ret.h = DefaultHash /\ ret.v = ZeroValue(argT)

====
